---- MODULE Spec2Model ----
(***************************************************************************)
(* Model of the sports-preview scraping plugin (plugin-sportsbetting):     *)
(*   - utils/cache.ts          Cache (file-per-key TTL cache)              *)
(*   - services/browser.ts     BrowserService (shared browser session)     *)
(*   - standalone-test.ts      navigateWithRetry, getPreviewLinks          *)
(*   - discord-bot.ts          splitMessage, sendMatchOverview             *)
(*   - the scraping scripts    units of work that open a page,             *)
(*                             scrapeMatchPreview                          *)
(* Strings are sequences of one-character strings, so that length,         *)
(* splitting and per-character encoding are computed as the code does.     *)
(***************************************************************************)
EXTENDS Integers, Sequences, FiniteSets, TLC

VARIABLES
    \* ---- Cache.getCacheKey applied to two logical keys
    kdK1, kdK2, kdId1, kdId2,
    \* ---- Cache (utils/cache.ts)
    files,          \* backing store: file name -> NoFile | entry record
    cacheDirMade,   \* the .cache directory exists
    now,            \* Date.now()
    cpc,            \* per caller: position inside Cache.get / Cache.set
    last,           \* the cache step taken last and the value it produced
    lastSet,        \* history: per key, the entry of the last completed set
                    \* on that key with no delete on that key since
    \* ---- navigateWithRetry (standalone-test.ts)
    nvMax,          \* argument maxRetries
    nvPage,         \* how the page behaves: "always_throws" or "flaky"
    nvI,            \* loop variable i
    nvPc,           \* "call", "attempt", "backoff" or "done"
    nvRet,          \* "none", "true", "false" or "raised"
    nvErr,          \* the error raised to the caller
    nvLog,          \* what happened, in order: attempt outcomes and waits
    \* ---- splitMessage (discord-bot.ts)
    smContent,      \* argument content
    smMax,          \* argument maxLength
    smPc,           \* "call" or "done"
    smChunks,       \* the returned chunks
    \* ---- getPreviewLinks (both copies)
    glListing,      \* the listing page: its rows in document order
    glPc,           \* "call" or "done"
    glVariant,      \* which copy ran: "grouped" or "table"
    glResult,       \* the returned PreviewSection[]
    \* ---- BrowserService (services/browser.ts)
    bsBrowser,      \* this.browser: 0 (undefined) or the browser's number
    bsContext,      \* this.context: 0 (undefined) or its browser's number
    bsBlocker,      \* this.blocker is set
    bsPc,           \* per caller: the await it is suspended at
    bsRet,          \* per caller: how its last call ended
    bsLaunched,     \* number of chromium.launch() calls made
    bsCtxMade,      \* contexts created (numbered by their browser)
    bsClosedB,      \* browsers closed
    bsClosedC,      \* contexts closed
    bsHist,         \* history: "close" once close() was called, "fail" once
                    \* a launch or set-up step failed, "init" once
                    \* initialize() was called directly
    \* ---- units of work that open a page (the scraping scripts)
    puUnit,         \* the unit of work running, or "none"
    puPc,           \* "idle", "goto", "retry_wait", "body" or "finally"
    puPage,         \* the page the running unit opened, 0 for none
    puAttempt,      \* getPage: the loop variable attempt
    puPending,      \* how the unit will end once its finally block has run
    puOpen,         \* pages open in the browser session
    puOpened,       \* number of pages opened so far
    puDone,         \* the unit that ended last: its name, page and outcome
    \* ---- scrapeMatchPreview and the loop of main that calls it
    mpVariant,      \* which copy runs: "titleSplit" or "selectors"
    mpN,            \* number of matches main has to process
    mpIdx,          \* the match main is processing
    mpPc,           \* "loop", "nav", "anchor", "evaluate", "scraped",
                    \* "send", "delay" or "finished"
    mpDoc,          \* the document the page has loaded
    mpRet,          \* what scrapeMatchPreview returned for this match
    mpLog,          \* per match processed so far, how its scrape ended
    \* ---- the publisher (sendMatchOverview, and main of the script)
    pbVariant,      \* "bot" (discord-bot.ts) or "script" (part_001 main)
    pbSections,     \* input: per section, per match, "preview" or "none"
    pbContent,      \* input: the kind of content the previews format to
    pbPc,           \* where the publisher is: step, section, match, chunks
    pbSent,         \* messages sent successfully, in order
    pbThreads,      \* sections whose thread was created
    pbAttempts,     \* history: the threads and match messages the
                    \* publisher has started on
    \* ---- get-cached-or-scrape (getCachedPreview, getPageContent, execute)
    fcVariant,      \* which function is called
    fcStore,        \* its cache: url -> NoEntry | [data, stamp]
    fcNow,          \* Date.now()
    fcPc,           \* "idle", "open", "scrape" or "close"
    fcUrl,          \* argument of the running call
    fcStart,        \* Date.now() when the running call started
    fcResult,       \* how the running call will end once the page is closed
    fcLog,           \* the calls that have ended, in order
    \* ---- scrapeMatchPreview run twice on one unchanged page
    idVariant,      \* which copy runs: "titleSplit" or "selectors"
    idUrl,          \* argument url of both runs
    idDoc,          \* the document both runs load
    idPc,           \* "call", "summarise" or "done"
    idExtracted,    \* result of page.evaluate in the running call
    idResults,       \* what the runs made so far returned, in order
    \* ---- DiscordBot.handleButtonClick (discord-bot.ts)
    hbType,         \* the dataType the button was built for
    hbUrl,          \* the url the button was built for
    hbPc,           \* "click", "scrape" or "done"
    hbParsed,       \* dataType and url as parsed from the customId
    hbCase          \* the branch of the switch that ran, or the reply sent

keyVars   == <<kdK1, kdK2, kdId1, kdId2>>
cacheVars == <<files, cacheDirMade, now, cpc, last, lastSet>>
navVars   == <<nvMax, nvPage, nvI, nvPc, nvRet, nvErr, nvLog>>
splitVars == <<smContent, smMax, smPc, smChunks>>
linkVars  == <<glListing, glPc, glVariant, glResult>>
bsVars    == <<bsBrowser, bsContext, bsBlocker, bsPc, bsRet, bsLaunched,
               bsCtxMade, bsClosedB, bsClosedC, bsHist>>
puVars    == <<puUnit, puPc, puPage, puAttempt, puPending, puOpen, puOpened,
               puDone>>
mpVars    == <<mpVariant, mpN, mpIdx, mpPc, mpDoc, mpRet, mpLog>>
pbVars    == <<pbVariant, pbSections, pbContent, pbPc, pbSent, pbThreads,
               pbAttempts>>
fcVars    == <<fcVariant, fcStore, fcNow, fcPc, fcUrl, fcStart, fcResult,
               fcLog>>
idVars    == <<idVariant, idUrl, idDoc, idPc, idExtracted, idResults>>
hbVars    == <<hbType, hbUrl, hbPc, hbParsed, hbCase>>
vars      == <<keyVars, cacheVars, navVars, splitVars, linkVars, bsVars,
               puVars, mpVars, pbVars, fcVars, idVars, hbVars>>

Null == "null"

----------------------------------------------------------------------------
(* Generic string helpers                                                  *)

RECURSIVE Concat(_)
Concat(ss) == IF ss = <<>> THEN <<>> ELSE Head(ss) \o Concat(Tail(ss))

StrsUpTo(alphabet, n) == UNION { [1..m -> alphabet] : m \in 0..n }

----------------------------------------------------------------------------
(* Cache.getCacheKey  (utils/cache.ts:36-40)                               *)

MaxKeyLen == 3

\* The characters logical keys are drawn from: '%', '_', space, digits.
KeyAlphabet == {"%", "_", " ", "2", "5", "0"}

\* encodeURIComponent leaves A-Z a-z 0-9 - _ . ! ~ * ' ( ) alone and writes
\* every other character as %XX (UTF-8, upper-case hex).
Unreserved == {"_", "2", "5", "0", "a", "b", "-", "."}

EncodeChar(c) ==
    IF c \in Unreserved THEN <<c>>
    ELSE IF c = "%" THEN <<"%", "2", "5">>
    ELSE IF c = " " THEN <<"%", "2", "0">>
    ELSE <<"%", "x", "x">>

encodeURIComponent(s) == Concat([i \in 1..Len(s) |-> EncodeChar(s[i])])

\* String.prototype.replace(/%/g, '_')
ReplacePercent(s) == [i \in 1..Len(s) |-> IF s[i] = "%" THEN "_" ELSE s[i]]

\* join(cacheDir, safeKey + ".json"): the directory and the suffix are the
\* same for every key, so the file is identified by safeKey.
getCacheKey(key) == ReplacePercent(encodeURIComponent(key))

LogicalKeys == StrsUpTo(KeyAlphabet, MaxKeyLen) \ {<<>>}

KeyInit ==
    /\ kdK1 \in LogicalKeys
    /\ kdK2 \in LogicalKeys
    /\ kdId1 = <<>>
    /\ kdId2 = <<>>

\* Two callers derive the storage identifier of their logical key.
DeriveKeys ==
    /\ kdId1 = <<>>
    /\ kdId1' = getCacheKey(kdK1)
    /\ kdId2' = getCacheKey(kdK2)
    /\ UNCHANGED <<kdK1, kdK2>>

KeyIdle ==
    /\ kdK1 = <<"%">>
    /\ kdK2 = <<"%">>
    /\ kdId1 = <<>>
    /\ kdId2 = <<>>

----------------------------------------------------------------------------
(* Cache  (utils/cache.ts:11-82)                                           *)

MaxTime == 2
MaxTtl == 1

\* Two units of work share the Cache singleton.
CacheCallers == {"c1", "c2"}

\* Logical keys used against the cache; "%" and "_25" are distinct keys.
CacheKeys == {<<"%">>, <<"_", "2", "5">>, <<"0">>}

\* Values callers store: page content strings / preview arrays.
CacheValues == {"d1", "d2"}

FileNames == {getCacheKey(k) : k \in CacheKeys}

NoFile == [kind |-> "absent"]

\* A backing file whose content JSON.parse rejects.
CorruptFile == [kind |-> "corrupt"]

\* JSON.parse(JSON.stringify(v)): NaN and Infinity are written as null.
JsonRoundTrip(v) == IF v \in {"NaN", "Infinity"} THEN Null ELSE v

\* The CacheEntry written by set (cache.ts:63-67), as read back by get.
CacheEntry(data, ttl) ==
    [kind |-> "entry", data |-> JsonRoundTrip(data),
     timestamp |-> now, expiresAt |-> now + ttl]

NoSet == [kind |-> "none"]
IdleCall == [op |-> "idle"]
NoStep == [op |-> "none"]

CacheInit ==
    /\ files = [f \in FileNames |-> NoFile]
    /\ cacheDirMade = FALSE
    /\ now = 0
    /\ cpc = [p \in CacheCallers |-> IdleCall]
    /\ last = NoStep
    /\ lastSet = [k \in CacheKeys |-> NoSet]

\* Time passes between any two steps.
Tick ==
    /\ now < MaxTime
    /\ now' = now + 1
    /\ last' = [op |-> "tick"]
    /\ UNCHANGED <<files, cacheDirMade, cpc, lastSet>>

\* Cache.set up to `await this.ensureCacheDir()` (cache.ts:59-61).
SetStart(p, key, data, ttl) ==
    /\ cpc[p] = IdleCall
    /\ cacheDirMade' = TRUE
    /\ cpc' = [cpc EXCEPT ![p] = [op |-> "set_open", key |-> key,
                                  data |-> data, ttl |-> ttl]]
    /\ last' = [op |-> "set_start", key |-> key]
    /\ UNCHANGED <<files, now, lastSet>>

\* Length of JSON.stringify of an entry holding the value: "d2" stands for
\* the longer text.
JsonLength(data) == IF data = "d2" THEN 2 ELSE 1

\* A file opened with flag 'w': truncated to no content, which JSON.parse
\* rejects.
TruncatedFile == [kind |-> "empty"]

\* The bytes of e written from offset 0 into the file as it is then: what
\* another writer wrote since this writer's truncation stays behind e where
\* it is longer, and the mixture is not JSON.
WriteOver(file, e) ==
    IF file.kind = "entry" /\ JsonLength(file.data) > JsonLength(e.data)
    THEN CorruptFile
    ELSE e

\* Cache.set from getCacheKey to the point where fs.writeFile has opened
\* the file (cache.ts:62-68): the entry is built with Date.now() and the
\* open truncates the file.
SetOpen(p) ==
    /\ cpc[p].op = "set_open"
    /\ LET c == cpc[p]
       IN /\ files' = [files EXCEPT ![getCacheKey(c.key)] = TruncatedFile]
          /\ cpc' = [cpc EXCEPT ![p] = [op |-> "set_write", key |-> c.key,
                                        entry |-> CacheEntry(c.data, c.ttl)]]
          /\ last' = [op |-> "set_open", key |-> c.key]
    /\ UNCHANGED <<cacheDirMade, now, lastSet>>

\* fs.writeFile writes the text and closes the file; set returns
\* (cache.ts:68).
SetWrite(p) ==
    /\ cpc[p].op = "set_write"
    /\ LET c == cpc[p]
           e == c.entry
       IN /\ files' = [files EXCEPT ![getCacheKey(c.key)] =
                           WriteOver(files[getCacheKey(c.key)], e)]
          /\ lastSet' = [lastSet EXCEPT ![c.key] =
                            [kind |-> "set", data |-> e.data,
                             expiresAt |-> e.expiresAt]]
          /\ last' = [op |-> "set", key |-> c.key]
    /\ cpc' = [cpc EXCEPT ![p] = IdleCall]
    /\ UNCHANGED <<cacheDirMade, now>>

\* The backing file's content is damaged from outside the Cache (a write
\* cut short, an edit by hand); the entries stored in it are lost.
Corrupt(f) ==
    /\ files[f].kind = "entry"
    /\ \A p \in CacheCallers :
          cpc[p].op = "set_write" => getCacheKey(cpc[p].key) # f
    /\ files' = [files EXCEPT ![f] = CorruptFile]
    /\ lastSet' = [k \in CacheKeys |->
                      IF getCacheKey(k) = f THEN NoSet ELSE lastSet[k]]
    /\ last' = [op |-> "corrupt"]
    /\ UNCHANGED <<cacheDirMade, now, cpc>>

GetCatch_rethrows == "raised"

\* `catch (error) { return null; }` of Cache.get (cache.ts:54-56).
GetCatch == Null

DeleteCatch_rethrows == "raised"

\* The empty catch of Cache.delete (cache.ts:78-80): the call completes.
DeleteCatch == "void"

\* Cache.get from readFile to the expiry check (cache.ts:43-56).  A missing
\* file makes readFile throw and a corrupt one makes JSON.parse throw; the
\* catch handles both.  `val` is what the call returns; on the expired
\* branch it returns after the delete.
GetRead(p, key) ==
    /\ cpc[p] = IdleCall
    /\ LET cache == files[getCacheKey(key)]
       IN IF cache.kind # "entry"
          THEN /\ last' = [op |-> "get", key |-> key, val |-> GetCatch]
               /\ cpc' = cpc
          ELSE IF now > cache.expiresAt
          THEN /\ last' = [op |-> "get", key |-> key, val |-> Null]
               /\ cpc' = [cpc EXCEPT ![p] = [op |-> "get_delete", key |-> key]]
          ELSE /\ last' = [op |-> "get", key |-> key, val |-> cache.data]
               /\ cpc' = cpc
    /\ UNCHANGED <<files, cacheDirMade, now, lastSet>>

\* The unlink of Cache.delete (cache.ts:74-81); ENOENT is swallowed.
Unlink(key) == [files EXCEPT ![getCacheKey(key)] = NoFile]

\* Cache.get, expired branch: `await this.delete(key); return null`.
GetDelete(p) ==
    /\ cpc[p].op = "get_delete"
    /\ files' = Unlink(cpc[p].key)
    /\ last' = [op |-> "get_delete", key |-> cpc[p].key]
    /\ cpc' = [cpc EXCEPT ![p] = IdleCall]
    /\ UNCHANGED <<cacheDirMade, now, lastSet>>

\* Cache.delete called by a client.
Delete(p, key) ==
    /\ cpc[p] = IdleCall
    /\ files' = Unlink(key)
    /\ lastSet' = [lastSet EXCEPT ![key] = NoSet]
    /\ last' = [op |-> "delete", key |-> key,
                val |-> IF files[getCacheKey(key)].kind = "absent"
                        THEN DeleteCatch ELSE "void"]
    /\ UNCHANGED <<cacheDirMade, now, cpc>>

CacheIdle ==
    /\ files = [f \in FileNames |-> NoFile]
    /\ cacheDirMade = FALSE
    /\ now = 0
    /\ cpc = [p \in CacheCallers |-> IdleCall]
    /\ last = NoStep
    /\ lastSet = [k \in CacheKeys |-> NoSet]

----------------------------------------------------------------------------
(* navigateWithRetry  (standalone-test.ts:165-195)                         *)

MaxRetriesArg == 3

\* Ways one pass through the try block can throw: creating the CDP session
\* or clearing cookies fails, page.goto times out, page.goto hits a network
\* error.
ThrowKinds == {"cdp_error", "timeout", "net_error"}

\* Ways page.goto resolves: a 2xx document, or any other HTTP status (goto
\* resolves with the response whatever its status).
ResolveKinds == {"ok", "http_error"}

PageModes == {"always_throws", "flaky"}

NavInit ==
    /\ nvMax \in 0..MaxRetriesArg
    /\ nvPage \in PageModes
    /\ nvI = 0
    /\ nvPc = "call"
    /\ nvRet = "none"
    /\ nvErr = "none"
    /\ nvLog = <<>>

\* `i < maxRetries`, the loop condition (line 170).
LoopContinues(i, maxRetries) == i < maxRetries

IsLastAttempt_offByOne(i, maxRetries) == i = maxRetries

\* `i === maxRetries - 1` (line 190).
IsLastAttempt(i, maxRetries) == i = maxRetries - 1

\* Entering the loop, or falling through to `return false` (line 194).
LoopOrReturnFalse(i) ==
    IF LoopContinues(i, nvMax)
    THEN /\ nvPc' = "attempt"
         /\ nvRet' = nvRet
    ELSE /\ nvPc' = "done"
         /\ nvRet' = "false"

NavCall ==
    /\ nvPc = "call"
    /\ nvI' = 0
    /\ LoopOrReturnFalse(0)
    /\ UNCHANGED <<nvMax, nvPage, nvErr, nvLog>>

\* The try block runs to `return true` (lines 171-185).
AttemptResolves(kind) ==
    /\ nvPc = "attempt"
    /\ nvPage = "flaky"
    /\ nvLog' = Append(nvLog, kind)
    /\ nvRet' = "true"
    /\ nvPc' = "done"
    /\ UNCHANGED <<nvMax, nvPage, nvI, nvErr>>

\* The try block throws; the catch rethrows on the last attempt and starts
\* the 2000 ms wait otherwise (lines 186-191).
AttemptThrows(kind) ==
    /\ nvPc = "attempt"
    /\ nvLog' = Append(nvLog, kind)
    /\ IF IsLastAttempt(nvI, nvMax)
       THEN /\ nvRet' = "raised"
            /\ nvErr' = kind
            /\ nvPc' = "done"
       ELSE /\ nvPc' = "backoff"
            /\ UNCHANGED <<nvRet, nvErr>>
    /\ UNCHANGED <<nvMax, nvPage, nvI>>

BackoffDone_skipsWait ==
    /\ nvPc = "backoff"
    /\ nvI' = nvI + 1
    /\ LoopOrReturnFalse(nvI + 1)
    /\ UNCHANGED <<nvMax, nvPage, nvErr, nvLog>>

\* page.waitForTimeout(2000) resolves; i++ and the loop condition.
BackoffDone ==
    /\ nvPc = "backoff"
    /\ nvLog' = Append(nvLog, "wait")
    /\ nvI' = nvI + 1
    /\ LoopOrReturnFalse(nvI + 1)
    /\ UNCHANGED <<nvMax, nvPage, nvErr>>

NavIdle ==
    /\ nvMax = 0
    /\ nvPage = "flaky"
    /\ nvI = 0
    /\ nvPc = "call"
    /\ nvRet = "none"
    /\ nvErr = "none"
    /\ nvLog = <<>>

\* The attempts made: the entries of the log that are not waits.
NavAttempts == Cardinality({n \in 1..Len(nvLog) : nvLog[n] # "wait"})

----------------------------------------------------------------------------
(* splitMessage  (discord-bot.ts:317-338, the same text in the scripts)    *)

MaxContentLen == 5
MaxChunkLen == 3

NL == "\n"

ContentAlphabet == {"a", NL}

\* String.prototype.split("\n"): always at least one element.
RECURSIVE SplitLines(_)
SplitLines(s) ==
    IF \A n \in 1..Len(s) : s[n] # NL
    THEN <<s>>
    ELSE LET at == CHOOSE n \in 1..Len(s) :
                      s[n] = NL /\ \A m \in 1..(n - 1) : s[m] # NL
         IN <<SubSeq(s, 1, at - 1)>> \o SplitLines(SubSeq(s, at + 1, Len(s)))

SplitStep_dropsNewline(st, line, maxLength) ==
    IF Len(st.currentChunk) + Len(line) + 1 > maxLength
    THEN [chunks |-> Append(st.chunks, st.currentChunk),
          currentChunk |-> line]
    ELSE [chunks |-> st.chunks,
          currentChunk |-> st.currentChunk \o line \o <<NL>>]

\* The body of `for (const line of lines)` (lines 325-330).
SplitStep(st, line, maxLength) ==
    IF Len(st.currentChunk) + Len(line) + 1 > maxLength
    THEN [chunks |-> Append(st.chunks, st.currentChunk),
          currentChunk |-> line \o <<NL>>]
    ELSE [chunks |-> st.chunks,
          currentChunk |-> st.currentChunk \o line \o <<NL>>]

RECURSIVE SplitLoop(_, _, _)
SplitLoop(st, lines, maxLength) ==
    IF lines = <<>> THEN st
    ELSE SplitLoop(SplitStep(st, Head(lines), maxLength), Tail(lines), maxLength)

splitMessage(content, maxLength) ==
    IF Len(content) <= maxLength THEN <<content>>
    ELSE LET st == SplitLoop([chunks |-> <<>>, currentChunk |-> <<>>],
                             SplitLines(content), maxLength)
         IN IF st.currentChunk # <<>>
            THEN Append(st.chunks, st.currentChunk)
            ELSE st.chunks

SplitInit ==
    /\ smContent \in StrsUpTo(ContentAlphabet, MaxContentLen)
    /\ smMax \in 1..MaxChunkLen
    /\ smPc = "call"
    /\ smChunks = <<>>

SplitMessageCall ==
    /\ smPc = "call"
    /\ smChunks' = splitMessage(smContent, smMax)
    /\ smPc' = "done"
    /\ UNCHANGED <<smContent, smMax>>

SplitIdle ==
    /\ smContent = <<>>
    /\ smMax = 1
    /\ smPc = "call"
    /\ smChunks = <<>>

----------------------------------------------------------------------------
(* getPreviewLinks                                                         *)
(*   "grouped": unnamed/part_001:221-297 (header elements, link elements)  *)
(*   "table":   standalone-test.ts:197-251 (rows of table.matches)         *)
(* A listing is the sequence of rows of the page.  A header row carries    *)
(* its section text; a match row carries its time and title texts (either  *)
(* may be empty) and a link; a "nolink" row is a match row whose link is   *)
(* missing; a "day" row is a date divider.                                 *)

MaxRows == 4

SectionNames == {"A", "B", ""}

RowKinds ==
    {[kind |-> "header", name |-> nm, time |-> "", title |-> ""] :
        nm \in SectionNames}
    \cup {[kind |-> "day", name |-> "", time |-> "", title |-> ""]}
    \cup {[kind |-> "match", name |-> "", time |-> t, title |-> m] :
        t \in {"", "15:00"}, m \in {"", "X v Y"}}
    \cup {[kind |-> "nolink", name |-> "", time |-> "15:00", title |-> "X v Y"]}

Listings == StrsUpTo(RowKinds, MaxRows)

\* currentElement.getAttribute("href") || "": the site's links are relative;
\* `row` tells the links of different rows apart.
Href(listing, n) ==
    [origin |-> "",
     path |-> IF listing[n].kind = "nolink" THEN "" ELSE "/preview",
     row |-> n]

\* url.startsWith("http") ? url : `https://www.sportsmole.co.uk${url}`
ResolveUrl(href) ==
    IF href.origin # "" THEN href
    ELSE [href EXCEPT !.origin = "https://www.sportsmole.co.uk"]

PreviewMatch(time, match, url) == [time |-> time, match |-> match, url |-> url]

\* matches.has / matches.set / matches.get(...).matches.push on a Map, which
\* keeps its keys in insertion order (part_001:265-277).
MapPush(m, section, entry) ==
    IF \E i \in 1..Len(m) : m[i].section = section
    THEN [i \in 1..Len(m) |->
            IF m[i].section = section
            THEN [m[i] EXCEPT !.matches = Append(@, entry)]
            ELSE m[i]]
    ELSE Append(m, [section |-> section, matches |-> <<entry>>])

\* The walk over header.nextElementSibling up to the next header
\* (part_001:239-283).
RECURSIVE GroupedWalk(_, _, _, _)
GroupedWalk(listing, n, competitionText, m) ==
    IF n > Len(listing) \/ listing[n].kind = "header" THEN m
    ELSE IF listing[n].kind = "day"
    THEN GroupedWalk(listing, n + 1, competitionText, m)
    ELSE IF listing[n].time # "" /\ listing[n].title # ""
    THEN GroupedWalk(listing, n + 1, competitionText,
            MapPush(m, competitionText,
                PreviewMatch(listing[n].time, listing[n].title,
                             ResolveUrl(Href(listing, n)))))
    ELSE GroupedWalk(listing, n + 1, competitionText, m)

\* querySelectorAll(".l_s_blocks_header").forEach (part_001:231-284);
\* a header with no text is skipped.
RECURSIVE GroupedHeaders(_, _, _)
GroupedHeaders(listing, n, m) ==
    IF n > Len(listing) THEN m
    ELSE IF listing[n].kind = "header" /\ listing[n].name # ""
    THEN GroupedHeaders(listing, n + 1,
            GroupedWalk(listing, n + 1, listing[n].name, m))
    ELSE GroupedHeaders(listing, n + 1, m)

getPreviewLinksGrouped(listing) == GroupedHeaders(listing, 1, <<>>)

NoSection == [has |-> FALSE, section |-> "", matches |-> <<>>]

\* `for (const row of rows)` (standalone-test.ts:205-232).  st.threw records
\* that matchCell.$eval("a", ..) found no link and threw.
RECURSIVE TableLoop(_, _, _)
TableLoop(listing, n, st) ==
    IF n > Len(listing) \/ st.threw THEN st
    ELSE LET row == listing[n]
         IN IF row.kind = "header"
            THEN TableLoop(listing, n + 1,
                    [st EXCEPT
                        !.previewLinks =
                            IF st.currentSection.has
                            THEN Append(@, [section |-> st.currentSection.section,
                                            matches |-> st.currentSection.matches])
                            ELSE @,
                        !.currentSection =
                            [has |-> TRUE, section |-> row.name, matches |-> <<>>]])
            ELSE IF st.currentSection.has /\ row.kind = "nolink"
            THEN [st EXCEPT !.threw = TRUE]
            ELSE IF st.currentSection.has /\ row.kind = "match"
            THEN TableLoop(listing, n + 1,
                    [st EXCEPT !.currentSection.matches =
                        Append(@, PreviewMatch(row.time, row.title, Href(listing, n)))])
            ELSE TableLoop(listing, n + 1, st)

getPreviewLinksTable(listing) ==
    LET st == TableLoop(listing, 1,
                [previewLinks |-> <<>>, currentSection |-> NoSection,
                 threw |-> FALSE])
    IN IF st.threw THEN <<>>
       ELSE IF st.currentSection.has /\ Len(st.currentSection.matches) > 0
       THEN Append(st.previewLinks, [section |-> st.currentSection.section,
                                     matches |-> st.currentSection.matches])
       ELSE st.previewLinks

LinksInit ==
    /\ glListing \in Listings
    /\ glPc = "call"
    /\ glVariant = "none"
    /\ glResult = <<>>

GetPreviewLinksGrouped ==
    /\ glPc = "call"
    /\ glResult' = getPreviewLinksGrouped(glListing)
    /\ glVariant' = "grouped"
    /\ glPc' = "done"
    /\ UNCHANGED glListing

GetPreviewLinksTable ==
    /\ glPc = "call"
    /\ glResult' = getPreviewLinksTable(glListing)
    /\ glVariant' = "table"
    /\ glPc' = "done"
    /\ UNCHANGED glListing

LinksIdle ==
    /\ glListing = <<>>
    /\ glPc = "call"
    /\ glVariant = "none"
    /\ glResult = <<>>

----------------------------------------------------------------------------
(* BrowserService  (services/browser.ts:6-163)                             *)
(* A call runs without interruption up to its next await on the browser    *)
(* driver; each action below is one such stretch.  A context is numbered   *)
(* by the browser it was created on (initialize creates one per launch).   *)

MaxLaunches == 3

\* Units of work that share BrowserService.getInstance().
Callers == {"u1", "u2"}

Idle == [at |-> "idle", from |-> "none", ref |-> 0]

Ret(kind, ctx) == [kind |-> kind, ctx |-> ctx]

\* A context no page can be opened on any more.
DeadContext(c) == c \in bsClosedC \/ c \in bsClosedB

BrowserInit ==
    /\ bsBrowser = 0
    /\ bsContext = 0
    /\ bsBlocker = FALSE
    /\ bsPc = [p \in Callers |-> Idle]
    /\ bsRet = [p \in Callers |-> Ret("none", 0)]
    /\ bsLaunched = 0
    /\ bsCtxMade = {}
    /\ bsClosedB = {}
    /\ bsClosedC = {}
    /\ bsHist = {}

\* A call ends: the caller is no longer suspended and has its result.
Finish(p, kind, ctx) ==
    /\ bsPc' = [bsPc EXCEPT ![p] = Idle]
    /\ bsRet' = [bsRet EXCEPT ![p] = Ret(kind, ctx)]

Suspend(p, at, from, ref) ==
    /\ bsPc' = [bsPc EXCEPT ![p] = [at |-> at, from |-> from, ref |-> ref]]
    /\ bsRet' = bsRet

\* newPage after `await this.initialize()`: lines 51-55, with the instance's
\* context as it is then.
AfterInitialize(p, context) ==
    IF context = 0
    THEN Finish(p, "err_context_not_initialized", 0)
    ELSE Suspend(p, "new_page", "newPage", context)

\* initialize() returns to its caller.
InitializeReturns(p, from, context) ==
    IF from = "newPage"
    THEN AfterInitialize(p, context)
    ELSE Finish(p, "ok", 0)

InitializeEnter_relaunches(p, from) ==
    IF bsBrowser = 0 \/ bsContext = 0
    THEN /\ bsLaunched < MaxLaunches
         /\ bsLaunched' = bsLaunched + 1
         /\ Suspend(p, "launch", from, bsLaunched + 1)
    ELSE /\ bsLaunched' = bsLaunched
         /\ InitializeReturns(p, from, bsContext)

\* initialize() up to `await chromium.launch(..)` (lines 59-69); with a
\* browser already set it returns at once.
InitializeEnter(p, from) ==
    IF bsBrowser = 0
    THEN /\ bsLaunched < MaxLaunches
         /\ bsLaunched' = bsLaunched + 1
         /\ Suspend(p, "launch", from, bsLaunched + 1)
    ELSE /\ bsLaunched' = bsLaunched
         /\ InitializeReturns(p, from, bsContext)

\* newPage() up to its first await (lines 46-55).
NewPageCall(p) ==
    /\ bsPc[p] = Idle
    /\ IF bsBrowser = 0 \/ bsContext = 0
       THEN InitializeEnter(p, "newPage")
       ELSE /\ AfterInitialize(p, bsContext)
            /\ bsLaunched' = bsLaunched
    /\ UNCHANGED <<bsBrowser, bsContext, bsBlocker, bsCtxMade, bsClosedB,
                   bsClosedC, bsHist>>

\* initialize() called directly (initBrowser in the scripts).
InitializeCall(p) ==
    /\ bsPc[p] = Idle
    /\ InitializeEnter(p, "initialize")
    /\ bsHist' = bsHist \cup {"init"}
    /\ UNCHANGED <<bsBrowser, bsContext, bsBlocker, bsCtxMade, bsClosedB,
                   bsClosedC>>

\* chromium.launch resolves: this.browser is assigned and newContext is
\* called on it (lines 61, 89).
LaunchDone(p) ==
    /\ bsPc[p].at = "launch"
    /\ bsBrowser' = bsPc[p].ref
    /\ Suspend(p, "new_context", bsPc[p].from, bsPc[p].ref)
    /\ UNCHANGED <<bsContext, bsBlocker, bsLaunched, bsCtxMade, bsClosedB,
                   bsClosedC, bsHist>>

\* A step of initialize() rejects: initialize throws, and so does newPage.
StepFails(p, at, kind) ==
    /\ bsPc[p].at = at
    /\ Finish(p, kind, 0)
    /\ bsHist' = bsHist \cup {"fail"}
    /\ UNCHANGED <<bsBrowser, bsContext, bsBlocker, bsLaunched, bsCtxMade,
                   bsClosedB, bsClosedC>>

LaunchFails(p) == StepFails(p, "launch", "err_launch")

\* browser.newContext resolves: this.context is assigned and the ad-blocker
\* lists are fetched (lines 89-107).  On a closed browser it rejects.
NewContextDone(p) ==
    /\ bsPc[p].at = "new_context"
    /\ IF bsPc[p].ref \in bsClosedB
       THEN /\ Finish(p, "err_new_context", 0)
            /\ UNCHANGED <<bsContext, bsCtxMade>>
       ELSE /\ bsContext' = bsPc[p].ref
            /\ bsCtxMade' = bsCtxMade \cup {bsPc[p].ref}
            /\ Suspend(p, "blocker", bsPc[p].from, bsPc[p].ref)
    /\ UNCHANGED <<bsBrowser, bsBlocker, bsLaunched, bsClosedB, bsClosedC,
                   bsHist>>

NewContextFails(p) == StepFails(p, "new_context", "err_new_context")

\* The blocker is built and this.context.route is called (lines 106-110);
\* with this.context undefined by then the call throws.
BlockerDone(p) ==
    /\ bsPc[p].at = "blocker"
    /\ bsBlocker' = TRUE
    /\ IF bsContext = 0
       THEN Finish(p, "err_route", 0)
       ELSE Suspend(p, "route", bsPc[p].from, bsContext)
    /\ UNCHANGED <<bsBrowser, bsContext, bsLaunched, bsCtxMade, bsClosedB,
                   bsClosedC, bsHist>>

BlockerFails(p) == StepFails(p, "blocker", "err_blocker")

\* context.route resolves (rejects on a closed context) and initialize
\* returns (lines 110-151).
RouteDone(p) ==
    /\ bsPc[p].at = "route"
    /\ IF DeadContext(bsPc[p].ref)
       THEN Finish(p, "err_route", 0)
       ELSE InitializeReturns(p, bsPc[p].from, bsContext)
    /\ UNCHANGED <<bsBrowser, bsContext, bsBlocker, bsLaunched, bsCtxMade,
                   bsClosedB, bsClosedC, bsHist>>

\* context.newPage resolves with a page of that context (lines 55-56), or
\* rejects when the context has been closed.
NewPageDone(p) ==
    /\ bsPc[p].at = "new_page"
    /\ IF DeadContext(bsPc[p].ref)
       THEN Finish(p, "err_closed", 0)
       ELSE Finish(p, "page", bsPc[p].ref)
    /\ UNCHANGED <<bsBrowser, bsContext, bsBlocker, bsLaunched, bsCtxMade,
                   bsClosedB, bsClosedC, bsHist>>

\* close() after the context part: `if (this.browser)` (lines 158-161).
CloseBrowserPart(p, browser) ==
    IF browser # 0
    THEN Suspend(p, "close_browser", "close", browser)
    ELSE Finish(p, "ok", 0)

\* close() up to its first await (lines 153-159).
CloseCall(p) ==
    /\ bsPc[p] = Idle
    /\ IF bsContext # 0
       THEN Suspend(p, "close_context", "close", bsContext)
       ELSE CloseBrowserPart(p, bsBrowser)
    /\ bsHist' = bsHist \cup {"close"}
    /\ UNCHANGED <<bsBrowser, bsContext, bsBlocker, bsLaunched, bsCtxMade,
                   bsClosedB, bsClosedC>>

CloseContextDone_keepsContext(p) ==
    /\ bsPc[p].at = "close_context"
    /\ bsClosedC' = bsClosedC \cup {bsPc[p].ref}
    /\ bsContext' = bsContext
    /\ CloseBrowserPart(p, bsBrowser)
    /\ UNCHANGED <<bsBrowser, bsBlocker, bsLaunched, bsCtxMade, bsClosedB,
                   bsHist>>

\* context.close resolves: this.context = undefined, then the browser part
\* (lines 155-159).
CloseContextDone(p) ==
    /\ bsPc[p].at = "close_context"
    /\ bsClosedC' = bsClosedC \cup {bsPc[p].ref}
    /\ bsContext' = 0
    /\ CloseBrowserPart(p, bsBrowser)
    /\ UNCHANGED <<bsBrowser, bsBlocker, bsLaunched, bsCtxMade, bsClosedB,
                   bsHist>>

\* browser.close resolves: this.browser = undefined (lines 159-160).
CloseBrowserDone(p) ==
    /\ bsPc[p].at = "close_browser"
    /\ bsClosedB' = bsClosedB \cup {bsPc[p].ref}
    /\ bsBrowser' = 0
    /\ Finish(p, "ok", 0)
    /\ UNCHANGED <<bsContext, bsBlocker, bsLaunched, bsCtxMade, bsClosedC,
                   bsHist>>

\* No other caller is inside a call: calls made one after the other.
Alone(p) == \A q \in Callers \ {p} : bsPc[q] = Idle

BrowserIdle ==
    /\ bsBrowser = 0
    /\ bsContext = 0
    /\ bsBlocker = FALSE
    /\ bsPc = [p \in Callers |-> Idle]
    /\ bsRet = [p \in Callers |-> Ret("none", 0)]
    /\ bsLaunched = 0
    /\ bsCtxMade = {}
    /\ bsClosedB = {}
    /\ bsClosedC = {}
    /\ bsHist = {}

----------------------------------------------------------------------------
(* Units of work that open a page                                          *)
(*   getCachedPreview            standalone-test.ts:1100-1123              *)
(*   getFormGuide                standalone-test.ts:1125-1160              *)
(*   scrapeChampionshipPreviews  standalone-test.ts:253-374                *)
(*   getAnalysis                 unnamed/part_001:496-531                  *)
(*   getPageContent, getPage     standalone-test.ts:1416-1497              *)
(* The units run one after the other on one browser session.  A page is    *)
(* numbered by the order in which it was opened.                           *)

MaxUnitCalls == 3

\* `const maxRetries = 3` in getPage.
GetPageMaxRetries == 3

PageUnits == {"getCachedPreview", "getFormGuide", "scrapeChampionshipPreviews",
              "getAnalysis", "getPageContent"}

\* Units whose try block has a catch clause that swallows the error.
CatchingUnits == {"getFormGuide", "scrapeChampionshipPreviews", "getAnalysis"}

\* Units that consult a cache before opening a page.
CachedUnits == {"getCachedPreview", "getPageContent"}

\* Ways the body of a unit fails: navigateWithRetry raises after its last
\* attempt, or an extraction step (evaluate, waitForSelector, content) throws.
BodyFailures == {"nav_exhausted", "extraction_error"}

\* Ways one page.goto attempt of getPage fails (lines 1428-1443).
GotoFailures == {"goto_throws", "no_response", "http_error"}

NoUnit == [unit |-> "none", page |-> 0, ret |-> "none"]

UnitsInit ==
    /\ puUnit = "none"
    /\ puPc = "idle"
    /\ puPage = 0
    /\ puAttempt = 0
    /\ puPending = "none"
    /\ puOpen = {}
    /\ puOpened = 0
    /\ puDone = NoUnit

\* The unit returns or raises to its caller.
UnitEnds(unit, page, ret) ==
    /\ puDone' = [unit |-> unit, page |-> page, ret |-> ret]
    /\ puUnit' = "none"
    /\ puPc' = "idle"
    /\ puPage' = 0
    /\ puAttempt' = 0
    /\ puPending' = "none"

\* A fresh cache entry is returned; no page is opened
\* (getCachedPreview lines 1101-1106, getPageContent lines 1464-1467).
UnitCacheHit(unit) ==
    /\ puPc = "idle"
    /\ unit \in CachedUnits
    /\ UnitEnds(unit, 0, "value")
    /\ UNCHANGED <<puOpen, puOpened>>

\* browser.newPage() resolves; the unit enters its try block, or for
\* getPageContent the retry loop of getPage (lines 1417-1426).
UnitOpensPage(unit) ==
    /\ puPc = "idle"
    /\ puOpened < MaxUnitCalls
    /\ puUnit' = unit
    /\ puOpened' = puOpened + 1
    /\ puPage' = puOpened + 1
    /\ puOpen' = puOpen \cup {puOpened + 1}
    /\ puPending' = "none"
    /\ IF unit = "getPageContent"
       THEN puPc' = "goto" /\ puAttempt' = 1
       ELSE puPc' = "body" /\ puAttempt' = 0
    /\ UNCHANGED puDone

\* getPage: page.goto resolves with a status below 400, the settle wait
\* ends and the page is returned to getPageContent (lines 1428-1447).
GetPageLoads ==
    /\ puPc = "goto"
    /\ puPc' = "body"
    /\ UNCHANGED <<puUnit, puPage, puAttempt, puPending, puOpen, puOpened,
                   puDone>>

\* getPage: the attempt fails; on the last attempt the error is rethrown,
\* and it leaves getPageContent too, whose try block has not been entered
\* (lines 1448-1455, 1469).
GetPageAttemptFails(kind) ==
    /\ puPc = "goto"
    /\ IF puAttempt = GetPageMaxRetries
       THEN UnitEnds(puUnit, puPage, "raised")
       ELSE /\ puPc' = "retry_wait"
            /\ UNCHANGED <<puUnit, puPage, puAttempt, puPending, puDone>>
    /\ UNCHANGED <<puOpen, puOpened>>

\* getPage: the 5000 ms wait before the next attempt ends (line 1454).
GetPageRetryWaitDone ==
    /\ puPc = "retry_wait"
    /\ puAttempt' = puAttempt + 1
    /\ puPc' = "goto"
    /\ UNCHANGED <<puUnit, puPage, puPending, puOpen, puOpened, puDone>>

\* The try block reaches a return statement.
BodyReturns(ret) ==
    /\ puPc = "body"
    /\ puUnit = "getPageContent" => ret = "value"
    /\ puPending' = ret
    /\ puPc' = "finally"
    /\ UNCHANGED <<puUnit, puPage, puAttempt, puOpen, puOpened, puDone>>

\* The try block throws: a catch clause, where there is one, turns the
\* error into a null return; otherwise the error is pending.
BodyThrows(kind) ==
    /\ puPc = "body"
    /\ puPending' = IF puUnit \in CatchingUnits THEN "null" ELSE "raised"
    /\ puPc' = "finally"
    /\ UNCHANGED <<puUnit, puPage, puAttempt, puOpen, puOpened, puDone>>

\* The finally block: page.close(), or in getFormGuide browser.close(),
\* which closes every page of the session (lines 1120-1122, 1157-1159).
FinallyDone ==
    /\ puPc = "finally"
    /\ puOpen' = IF puUnit = "getFormGuide" THEN {} ELSE puOpen \ {puPage}
    /\ UnitEnds(puUnit, puPage, puPending)
    /\ UNCHANGED puOpened

UnitsIdle ==
    /\ puUnit = "none"
    /\ puPc = "idle"
    /\ puPage = 0
    /\ puAttempt = 0
    /\ puPending = "none"
    /\ puOpen = {}
    /\ puOpened = 0
    /\ puDone = NoUnit

----------------------------------------------------------------------------
(* scrapeMatchPreview and the loop of main that calls it                   *)
(*   "titleSplit": unnamed/part_001:906-1067 (team news split by the team  *)
(*                 names taken from the page title)                        *)
(*   "selectors":  unnamed/part_001:2375-2536 (team news read from the     *)
(*                 .home-team-news / .away-team-news nodes)                *)
(*   main:         standalone-test.ts:999-1019                             *)
(* A document is what the page holds once navigation has succeeded: whether *)
(* the content anchor .article_content is there, whether the title has the *)
(* " vs. " separator, the paragraphs of the content in document order, and *)
(* which of the optional nodes exist.  A paragraph is named by what its    *)
(* text contains.  Fields the code fills with a constant are left out.     *)

MaxMatches == 2
MaxParagraphs == 2

ScrapeVariants == {"titleSplit", "selectors"}

\* "heading": contains "team news"; "first" / "second": contains the first /
\* second team name of the title; "prediction": contains "we say:";
\* "other": none of these.
ParagraphKinds == {"heading", "first", "second", "prediction", "other"}

InfoNodes == {"competition", "venue", "kickoff", "referee"}

TeamNewsNodes == {"home", "away"}

Docs ==
    [anchor : BOOLEAN,
     hasVs : BOOLEAN,
     pars : StrsUpTo(ParagraphKinds, MaxParagraphs),
     nodes : SUBSET InfoNodes,
     teamNodes : SUBSET TeamNewsNodes]

NoDoc == [anchor |-> FALSE, hasVs |-> FALSE, pars |-> <<>>, nodes |-> {},
          teamNodes |-> {}]

\* document.title.split(" - ")[0].split(" vs. ") (part_001:919).
TitleParts(doc) == IF doc.hasVs THEN <<"Home", "Away">> ELSE <<"Title">>

\* document.querySelector(sel)?.textContent?.trim() || "" (part_001:1002-1013).
NodeText(doc, node) == IF node \in doc.nodes THEN node ELSE ""

\* findPrediction (part_001:938-947): the first paragraph with "we say:".
FindPrediction(doc) ==
    IF \E n \in 1..Len(doc.pars) : doc.pars[n] = "prediction"
    THEN "prediction"
    ELSE ""

\* text.toLowerCase().includes(titleParts[k].toLowerCase()); k counts from 0
\* as in the source.
Includes(par, k) == (k = 0 /\ par = "first") \/ (k = 1 /\ par = "second")

\* getTeamNews (part_001:962-994).  st.threw: titleParts[1] is undefined and
\* `.toLowerCase()` on it throws a TypeError.
RECURSIVE TeamNewsLoop(_, _, _)
TeamNewsLoop(doc, n, st) ==
    IF n > Len(doc.pars) \/ st.threw THEN st
    ELSE LET text == doc.pars[n]
         IN IF text = "heading"
            THEN TeamNewsLoop(doc, n + 1, [st EXCEPT !.isTeamNews = TRUE])
            ELSE IF ~st.isTeamNews
            THEN TeamNewsLoop(doc, n + 1, st)
            ELSE IF Includes(text, 0)
            THEN TeamNewsLoop(doc, n + 1, [st EXCEPT !.home = Append(@, text)])
            ELSE IF Len(TitleParts(doc)) < 2
            THEN [st EXCEPT !.threw = TRUE]
            ELSE IF Includes(text, 1)
            THEN TeamNewsLoop(doc, n + 1, [st EXCEPT !.away = Append(@, text)])
            ELSE TeamNewsLoop(doc, n + 1, st)

getTeamNews(doc) ==
    TeamNewsLoop(doc, 1, [isTeamNews |-> FALSE, threw |-> FALSE,
                          home |-> <<>>, away |-> <<>>])

\* extractTeamNews (part_001:2420-2431) on one of the team-news nodes.
extractTeamNews(doc, side) == IF side \in doc.teamNodes THEN <<side>> ELSE <<>>

MatchPreview(home, away, prediction, doc, newsHome, newsAway) ==
    [homeTeam |-> home, awayTeam |-> away, prediction |-> prediction,
     competition |-> NodeText(doc, "competition"),
     venue |-> NodeText(doc, "venue"),
     kickoff |-> NodeText(doc, "kickoff"),
     referee |-> NodeText(doc, "referee"),
     teamNews |-> [home |-> newsHome, away |-> newsAway]]

NoPreview ==
    [homeTeam |-> "", awayTeam |-> "", prediction |-> "", competition |-> "",
     venue |-> "", kickoff |-> "", referee |-> "",
     teamNews |-> [home |-> <<>>, away |-> <<>>]]

\* titleParts[0] || "" and (titleParts[1] || "").split(" - ")[0] || ""
\* (part_001:997-998).
HomeTeam(doc) == TitleParts(doc)[1]
AwayTeam(doc) == IF Len(TitleParts(doc)) >= 2 THEN TitleParts(doc)[2] ELSE ""

\* The callback of page.evaluate and the object built from its result:
\* [threw |-> TRUE] when the callback throws.
Extract(variant, doc) ==
    IF variant = "titleSplit"
    THEN LET tn == getTeamNews(doc)
         IN [threw |-> tn.threw,
             preview |-> MatchPreview(HomeTeam(doc), AwayTeam(doc),
                                      FindPrediction(doc), doc, tn.home, tn.away)]
    ELSE [threw |-> FALSE,
          preview |-> MatchPreview(HomeTeam(doc), AwayTeam(doc),
                                   FindPrediction(doc), doc,
                                   extractTeamNews(doc, "home"),
                                   extractTeamNews(doc, "away"))]

NoResult == [kind |-> "none", cause |-> "none", preview |-> NoPreview]

ScrapeInit ==
    /\ mpVariant \in ScrapeVariants
    /\ mpN \in 1..MaxMatches
    /\ mpIdx = 1
    /\ mpPc = "loop"
    /\ mpDoc = NoDoc
    /\ mpRet = NoResult
    /\ mpLog = <<>>

ScrapeCatch_rethrows(cause) ==
    /\ mpRet' = [kind |-> "raised", cause |-> cause, preview |-> NoPreview]
    /\ mpPc' = "scraped"

\* `catch (error) { console.error(..); return null; }` (part_001:1063-1066,
\* 2532-2535), and the early `return null` statements.
ScrapeCatch(cause) ==
    /\ mpRet' = [kind |-> "null", cause |-> cause, preview |-> NoPreview]
    /\ mpPc' = "scraped"

\* main calls scrapeMatchPreview(page, match.url) (standalone-test.ts:1005).
ScrapeCall ==
    /\ mpPc = "loop"
    /\ mpPc' = "nav"
    /\ mpRet' = NoResult
    /\ mpDoc' = NoDoc
    /\ UNCHANGED <<mpVariant, mpN, mpIdx, mpLog>>

\* Navigation succeeds within the retries and the page holds a document
\* (part_001:913, 2382-2404).
NavigationSucceeds ==
    /\ mpPc = "nav"
    /\ \E doc \in Docs : mpDoc' = doc
    /\ mpPc' = "anchor"
    /\ UNCHANGED <<mpVariant, mpN, mpIdx, mpRet, mpLog>>

\* The last navigation attempt throws.
NavigationExhausted ==
    /\ mpPc = "nav"
    /\ ScrapeCatch("nav_exhausted")
    /\ UNCHANGED <<mpVariant, mpN, mpIdx, mpDoc, mpLog>>

\* page.waitForSelector(".article_content") resolves, or times out
\* (part_001:916, 2406-2412).
WaitForAnchor ==
    /\ mpPc = "anchor"
    /\ IF mpDoc.anchor
       THEN mpPc' = "evaluate" /\ mpRet' = mpRet
       ELSE ScrapeCatch("anchor_timeout")
    /\ UNCHANGED <<mpVariant, mpN, mpIdx, mpDoc, mpLog>>

\* page.evaluate resolves and the MatchPreview is built, or its callback
\* throws (part_001:918-1062, 2414-2531).
Evaluate ==
    /\ mpPc = "evaluate"
    /\ LET r == Extract(mpVariant, mpDoc)
       IN IF r.threw
          THEN ScrapeCatch("extraction_error")
          ELSE /\ mpRet' = [kind |-> "preview", cause |-> "none",
                            preview |-> r.preview]
               /\ mpPc' = "scraped"
    /\ UNCHANGED <<mpVariant, mpN, mpIdx, mpDoc, mpLog>>

\* page.evaluate rejects for a reason outside the document (the page
\* crashed or navigated away).
EvaluateRejects ==
    /\ mpPc = "evaluate"
    /\ ScrapeCatch("page_error")
    /\ UNCHANGED <<mpVariant, mpN, mpIdx, mpDoc, mpLog>>

\* main, after the call: `if (preview)` sends it, otherwise logs; an error
\* raised by the call is caught by the try around it
\* (standalone-test.ts:1004-1014).
MainHandlesResult ==
    /\ mpPc = "scraped"
    /\ mpLog' = Append(mpLog, mpRet.kind)
    /\ mpPc' = IF mpRet.kind = "preview" THEN "send" ELSE "delay"
    /\ UNCHANGED <<mpVariant, mpN, mpIdx, mpDoc, mpRet>>

\* sendToDiscord resolves, or throws and is caught
\* (standalone-test.ts:1008, 1012-1014).
SendToDiscordEnds(ok) ==
    /\ mpPc = "send"
    /\ mpPc' = "delay"
    /\ UNCHANGED <<mpVariant, mpN, mpIdx, mpDoc, mpRet, mpLog>>

\* The 2000 ms pause ends; the loop takes the next match or ends
\* (standalone-test.ts:1017).
MatchDelayDone ==
    /\ mpPc = "delay"
    /\ IF mpIdx < mpN
       THEN mpIdx' = mpIdx + 1 /\ mpPc' = "loop"
       ELSE mpIdx' = mpIdx /\ mpPc' = "finished"
    /\ UNCHANGED <<mpVariant, mpN, mpDoc, mpRet, mpLog>>

ScrapeIdle ==
    /\ mpVariant = "titleSplit"
    /\ mpN = 1
    /\ mpIdx = 1
    /\ mpPc = "loop"
    /\ mpDoc = NoDoc
    /\ mpRet = NoResult
    /\ mpLog = <<>>

----------------------------------------------------------------------------
(* The publisher                                                           *)
(*   "bot":    DiscordBot.sendMatchOverview, discord-bot.ts:158-315        *)
(*   "script": the publishing part of main, unnamed/part_001:1111-1277     *)
(* The input is the list of sections, each match with a preview or with   *)
(* none, and the content the previews format to: "short" (within the      *)
(* limit), "multiline" (over the limit, every line short) or "longline"   *)
(* (one line over the limit).  A message                                   *)
(* sent is recorded by its kind and place, an overview message also by    *)
(* what it lists, a thread message also by its length (len is 0 when not  *)
(* recorded).                                                              *)

MaxSections == 2
\* The matches of all sections together.
MaxPublishedMatches == 2

\* The platform's limit on the length of one message; the default of
\* splitMessage's maxLength.
DiscordLimit == 2000

PublisherVariants == {"bot", "script"}

ContentKinds == {"short", "multiline", "longline"}

MatchInputs == {"preview", "none"}

Line(n) == [i \in 1..n |-> "a"]

\* The formatted matchContent of a match (discord-bot.ts:251-296,
\* part_001:1173-1255).
ContentOf(kind) ==
    IF kind = "multiline"
    THEN Line(900) \o <<NL>> \o Line(900) \o <<NL>> \o Line(900)
    ELSE IF kind = "longline" THEN Line(2500) \o <<NL>> \o Line(10)
    ELSE Line(20) \o <<NL>> \o Line(20)

SectionInputs == StrsUpTo(MatchInputs, MaxPublishedMatches)

RECURSIVE TotalMatches(_)
TotalMatches(secs) ==
    IF secs = <<>> THEN 0 ELSE Len(Head(secs)) + TotalMatches(Tail(secs))

PublisherInputs ==
    {secs \in StrsUpTo(SectionInputs, MaxSections) :
        TotalMatches(secs) <= MaxPublishedMatches}

At(at, sec, match, chunks) ==
    [at |-> at, sec |-> sec, match |-> match, chunks |-> chunks]

PbDone == At("done", 0, 0, <<>>)

Msg(kind, sec, match, lists, len) ==
    [kind |-> kind, sec |-> sec, match |-> match, lists |-> lists, len |-> len]

Unit(kind, sec, match) == [kind |-> kind, sec |-> sec, match |-> match]

\* What an overview message lists: for each section its matches in order.
Listing(secs) ==
    [k \in 1..Len(secs) |->
        [sec |-> secs[k], matches |-> [m \in 1..Len(pbSections[secs[k]]) |-> m]]]

AllSections == [k \in 1..Len(pbSections) |-> k]

PublishInit ==
    /\ pbVariant \in PublisherVariants
    /\ pbSections \in PublisherInputs
    /\ pbContent \in ContentKinds
    /\ pbPc = At("start", 0, 0, <<>>)
    /\ pbSent = <<>>
    /\ pbThreads = {}
    /\ pbAttempts = {}

\* `for (const section of sections)` of the thread loop: the step that
\* begins the section after s, or the end of the loop.
ThreadLoopFrom(s) ==
    IF s < Len(pbSections)
    THEN At(IF pbVariant = "bot" THEN "thread" ELSE "thread_header",
            s + 1, 0, <<>>)
    ELSE PbDone

\* `for (const match of section.matches)`: the match after m of section s,
\* or the next section.
MatchLoopFrom(s, m) ==
    IF m < Len(pbSections[s])
    THEN At("match", s, m + 1, <<>>)
    ELSE ThreadLoopFrom(s)

\* The channel id is read and the channel fetched; without either the
\* publisher returns (discord-bot.ts:165-178, part_001:1111-1123).
GetChannel(found) ==
    /\ pbPc.at = "start"
    /\ pbPc' = IF found
               THEN At(IF pbVariant = "bot" THEN "summary" ELSE "header",
                       0, 0, <<>>)
               ELSE PbDone
    /\ UNCHANGED <<pbVariant, pbSections, pbContent, pbSent, pbThreads, pbAttempts>>

BotSendSummary_ignoresFailure(ok) ==
    /\ pbVariant = "bot"
    /\ pbPc.at = "summary"
    /\ pbSent' = IF ok
                 THEN Append(pbSent, Msg("summary", 0, 0, Listing(AllSections), 0))
                 ELSE pbSent
    /\ pbPc' = ThreadLoopFrom(0)
    /\ UNCHANGED <<pbVariant, pbSections, pbContent, pbThreads, pbAttempts>>

\* bot: the one overview message is built and sent; a failure goes to the
\* outer catch (discord-bot.ts:190-210, 312-314).
BotSendSummary(ok) ==
    /\ pbVariant = "bot"
    /\ pbPc.at = "summary"
    /\ IF ok
       THEN /\ pbSent' = Append(pbSent,
                    Msg("summary", 0, 0, Listing(AllSections), 0))
            /\ pbPc' = ThreadLoopFrom(0)
       ELSE /\ pbSent' = pbSent
            /\ pbPc' = PbDone
    /\ UNCHANGED <<pbVariant, pbSections, pbContent, pbThreads, pbAttempts>>

\* bot: mainMessage.startThread inside the section's try; a failure goes
\* to the section's catch and on to the next section
\* (discord-bot.ts:216-224, 303-308).
BotStartThread(ok) ==
    /\ pbVariant = "bot"
    /\ pbPc.at = "thread"
    /\ pbAttempts' = pbAttempts \cup {Unit("thread", pbPc.sec, 0)}
    /\ IF ok
       THEN /\ pbThreads' = pbThreads \cup {pbPc.sec}
            /\ pbPc' = MatchLoopFrom(pbPc.sec, 0)
       ELSE /\ pbThreads' = pbThreads
            /\ pbPc' = ThreadLoopFrom(pbPc.sec)
    /\ UNCHANGED <<pbVariant, pbSections, pbContent, pbSent>>

\* bot: a match without a preview is skipped (discord-bot.ts:230-239).
BotSkipMatch ==
    /\ pbVariant = "bot"
    /\ pbPc.at = "match"
    /\ pbSections[pbPc.sec][pbPc.match] = "none"
    /\ pbPc' = MatchLoopFrom(pbPc.sec, pbPc.match)
    /\ UNCHANGED <<pbVariant, pbSections, pbContent, pbSent, pbThreads, pbAttempts>>

\* bot: matchContent is built and sent whole with thread.send; a failure
\* goes to the section's catch, which is outside the match loop
\* (discord-bot.ts:251-300, 303-308).
BotSendMatch(ok) ==
    /\ pbVariant = "bot"
    /\ pbPc.at = "match"
    /\ pbSections[pbPc.sec][pbPc.match] # "none"
    /\ pbAttempts' = pbAttempts \cup {Unit("match", pbPc.sec, pbPc.match)}
    /\ IF ok
       THEN /\ pbSent' = Append(pbSent,
                    Msg("match", pbPc.sec, pbPc.match, <<>>,
                        Len(ContentOf(pbContent))))
            /\ pbPc' = MatchLoopFrom(pbPc.sec, pbPc.match)
       ELSE /\ pbSent' = pbSent
            /\ pbPc' = ThreadLoopFrom(pbPc.sec)
    /\ UNCHANGED <<pbVariant, pbSections, pbContent, pbThreads>>

\* script: the step after the overview messages of sections 1..k.
SectionSummaryFrom(k) ==
    IF k < Len(pbSections)
    THEN At("section_summary", k + 1, 0, <<>>)
    ELSE ThreadLoopFrom(0)

\* script: the date header is sent; a failure anywhere outside the match
\* loop goes to the catch of main and ends the run
\* (part_001:1134-1137, 1276-1281).
ScriptSendHeader(ok) ==
    /\ pbVariant = "script"
    /\ pbPc.at = "header"
    /\ IF ok
       THEN /\ pbSent' = Append(pbSent, Msg("header", 0, 0, <<>>, 0))
            /\ pbPc' = SectionSummaryFrom(0)
       ELSE /\ pbSent' = pbSent
            /\ pbPc' = PbDone
    /\ UNCHANGED <<pbVariant, pbSections, pbContent, pbThreads, pbAttempts>>

\* script: one overview message per section (part_001:1140-1151).
ScriptSendSectionSummary(ok) ==
    /\ pbVariant = "script"
    /\ pbPc.at = "section_summary"
    /\ IF ok
       THEN /\ pbSent' = Append(pbSent,
                    Msg("section_summary", pbPc.sec, 0,
                        Listing(<<pbPc.sec>>), 0))
            /\ pbPc' = SectionSummaryFrom(pbPc.sec)
       ELSE /\ pbSent' = pbSent
            /\ pbPc' = PbDone
    /\ UNCHANGED <<pbVariant, pbSections, pbContent, pbThreads, pbAttempts>>

\* script: the message the section's thread hangs from is sent
\* (part_001:1156-1159).
ScriptSendThreadHeader(ok) ==
    /\ pbVariant = "script"
    /\ pbPc.at = "thread_header"
    /\ pbAttempts' = pbAttempts \cup {Unit("thread", pbPc.sec, 0)}
    /\ IF ok
       THEN /\ pbSent' = Append(pbSent,
                    Msg("thread_header", pbPc.sec, 0, <<>>, 0))
            /\ pbPc' = At("thread", pbPc.sec, 0, <<>>)
       ELSE /\ pbSent' = pbSent
            /\ pbPc' = PbDone
    /\ UNCHANGED <<pbVariant, pbSections, pbContent, pbThreads>>

\* script: threadMessage.startThread, outside any per-section try
\* (part_001:1161-1164).
ScriptStartThread(ok) ==
    /\ pbVariant = "script"
    /\ pbPc.at = "thread"
    /\ IF ok
       THEN /\ pbThreads' = pbThreads \cup {pbPc.sec}
            /\ pbPc' = MatchLoopFrom(pbPc.sec, 0)
       ELSE /\ pbThreads' = pbThreads
            /\ pbPc' = PbDone
    /\ UNCHANGED <<pbVariant, pbSections, pbContent, pbSent, pbAttempts>>

\* The lengths of the chunks splitMessage(matchContent) returns
\* (part_001:1258).
ChunkLengths(content) ==
    LET chunks == splitMessage(content, DiscordLimit)
    IN [n \in 1..Len(chunks) |-> Len(chunks[n])]

\* script: the match is scraped inside the match's try; with a preview the
\* content is formatted and split (part_001:1168-1258).
ScriptScrapeMatch ==
    /\ pbVariant = "script"
    /\ pbPc.at = "match"
    /\ pbAttempts' = pbAttempts \cup {Unit("match", pbPc.sec, pbPc.match)}
    /\ pbPc' = IF pbSections[pbPc.sec][pbPc.match] = "none"
               THEN MatchLoopFrom(pbPc.sec, pbPc.match)
               ELSE At("chunk", pbPc.sec, pbPc.match,
                       ChunkLengths(ContentOf(pbContent)))
    /\ UNCHANGED <<pbVariant, pbSections, pbContent, pbSent, pbThreads>>

\* script: one chunk is sent to the thread; a failure goes to the match's
\* catch and on to the next match (part_001:1259-1271).
ScriptSendChunk(ok) ==
    /\ pbVariant = "script"
    /\ pbPc.at = "chunk"
    /\ IF ok
       THEN /\ pbSent' = Append(pbSent,
                    Msg("match", pbPc.sec, pbPc.match, <<>>, Head(pbPc.chunks)))
            /\ pbPc' = IF Len(pbPc.chunks) > 1
                       THEN [pbPc EXCEPT !.chunks = Tail(@)]
                       ELSE MatchLoopFrom(pbPc.sec, pbPc.match)
       ELSE /\ pbSent' = pbSent
            /\ pbPc' = MatchLoopFrom(pbPc.sec, pbPc.match)
    /\ UNCHANGED <<pbVariant, pbSections, pbContent, pbThreads, pbAttempts>>

PublishIdle ==
    /\ pbVariant = "bot"
    /\ pbSections = <<>>
    /\ pbContent = "short"
    /\ pbPc = At("start", 0, 0, <<>>)
    /\ pbSent = <<>>
    /\ pbThreads = {}
    /\ pbAttempts = {}

----------------------------------------------------------------------------
(* Get-cached-or-scrape: getCachedPreview (standalone-test.ts:1100-1123,   *)
(* the same text in unnamed/part_001), getPageContent                      *)
(* (standalone-test.ts:1462-1497) and getDataAction.execute                *)
(* (getData.ts:59-150). Calls are made one after the other.                *)

MaxFetchCalls == 3
MaxFetchTime == 4

\* CACHE_TTL (24 h) and cacheTimeout (15 min), in clock ticks.
FetchTtl == 2

FetchVariants == {"getCachedPreview", "getPageContent", "execute"}

FetchUrls == {"u1", "u2"}

NoEntry == [kind |-> "none"]

\* What a scrape can produce: a MatchPreview or null; the page's HTML; the
\* list of previews, possibly empty.
ScrapeResults(variant) ==
    CASE variant = "getCachedPreview" -> {"preview", Null}
      [] variant = "getPageContent" -> {"html"}
      [] variant = "execute" -> {"previews", "empty_list"}

\* JavaScript truthiness of a cached value: null is falsy, a non-empty
\* string and any array (the empty one too) are truthy.
Truthy(data) == data # Null

PreviewHit_requiresData(e, t) ==
    e # NoEntry /\ e.data # Null /\ t - e.stamp < FetchTtl

\* `cached && now - cached.timestamp < CACHE_TTL` (standalone-test.ts:1104);
\* cached is the entry object, truthy whatever its data.
PreviewHit(e, t) == e # NoEntry /\ t - e.stamp < FetchTtl

\* Cache.get followed by `if (cachedContent)` / `if (cachedData)`: the entry
\* is there, `Date.now() > cache.expiresAt` is false and the data is truthy.
FileHit(e, t) == e # NoEntry /\ ~(t > e.stamp + FetchTtl) /\ Truthy(e.data)

Hit(variant, e, t) ==
    IF variant = "getCachedPreview" THEN PreviewHit(e, t) ELSE FileHit(e, t)

\* Cache.get deletes an entry it finds expired (cache.ts:48-51); the Map of
\* getCachedPreview is only ever written.
AfterLookup(variant, store, url, t) ==
    IF /\ variant # "getCachedPreview"
       /\ store[url] # NoEntry
       /\ t > store[url].stamp + FetchTtl
    THEN [store EXCEPT ![url] = NoEntry]
    ELSE store

StoreEntry_dropsWrite(store, url, data, stamp) == store

\* articleCache.set(url, {data, timestamp}) / cache.set(url, data, ttl).
StoreEntry(store, url, data, stamp) ==
    [store EXCEPT ![url] = [kind |-> "entry", data |-> data, stamp |-> stamp]]

\* The timestamp the stored entry carries: `now` taken when the call
\* started (standalone-test.ts:1101, 1116), or Date.now() at the write
\* (cache.ts:65-66).
StampOf(variant, start, t) ==
    IF variant = "getCachedPreview" THEN start ELSE t

CallRecord(url, start, opened, ret, stored, data, stamp) ==
    [url |-> url, start |-> start, opened |-> opened, ret |-> ret,
     stored |-> stored, data |-> data, stamp |-> stamp]

NoFetchResult == [ret |-> "none", stored |-> FALSE, data |-> "none", stamp |-> 0]

FetchInit ==
    /\ fcVariant \in FetchVariants
    /\ fcStore = [u \in FetchUrls |-> NoEntry]
    /\ fcNow = 0
    /\ fcPc = "idle"
    /\ fcUrl = "u1"
    /\ fcStart = 0
    /\ fcResult = NoFetchResult
    /\ fcLog = <<>>

\* The call starts: the cache lookup, and the early return on a hit.
FetchCall(url) ==
    /\ fcPc = "idle"
    /\ Len(fcLog) < MaxFetchCalls
    /\ fcUrl' = url
    /\ fcStart' = fcNow
    /\ fcStore' = AfterLookup(fcVariant, fcStore, url, fcNow)
    /\ IF Hit(fcVariant, fcStore[url], fcNow)
       THEN /\ fcLog' = Append(fcLog,
                   CallRecord(url, fcNow, FALSE, fcStore[url].data, FALSE,
                              "none", 0))
            /\ fcPc' = "idle"
       ELSE /\ fcLog' = fcLog
            /\ fcPc' = "open"
    /\ UNCHANGED <<fcVariant, fcNow, fcResult>>

\* browser.newPage() / this.getPage(url) / chromium.launch and newPage:
\* the page opens, or the call raises with nothing cached.
PageOpens(ok) ==
    /\ fcPc = "open"
    /\ IF ok
       THEN /\ fcPc' = "scrape"
            /\ fcLog' = fcLog
       ELSE /\ fcPc' = "idle"
            /\ fcLog' = Append(fcLog,
                   CallRecord(fcUrl, fcStart, FALSE, "raised", FALSE, "none", 0))
    /\ UNCHANGED <<fcVariant, fcStore, fcNow, fcUrl, fcStart, fcResult>>

\* The scrape produces its result and the result is stored.
ScrapeReturns(data) ==
    /\ fcPc = "scrape"
    /\ data \in ScrapeResults(fcVariant)
    /\ LET stamp == StampOf(fcVariant, fcStart, fcNow)
       IN /\ fcStore' = StoreEntry(fcStore, fcUrl, data, stamp)
          /\ fcResult' = [ret |-> data, stored |-> TRUE, data |-> data,
                          stamp |-> stamp]
    /\ fcPc' = "close"
    /\ UNCHANGED <<fcVariant, fcNow, fcUrl, fcStart, fcLog>>

\* The body throws before the cache write (page.content() rejects, goto
\* fails on every retry); scrapeMatchPreview itself never throws.
ScrapeThrows ==
    /\ fcPc = "scrape"
    /\ fcVariant # "getCachedPreview"
    /\ fcResult' = [ret |-> "raised", stored |-> FALSE, data |-> "none",
                    stamp |-> 0]
    /\ fcPc' = "close"
    /\ UNCHANGED <<fcVariant, fcStore, fcNow, fcUrl, fcStart, fcLog>>

\* The finally block: page.close() / browser.close(), then the call ends.
PageCloses ==
    /\ fcPc = "close"
    /\ fcLog' = Append(fcLog,
           CallRecord(fcUrl, fcStart, TRUE, fcResult.ret, fcResult.stored,
                      fcResult.data, fcResult.stamp))
    /\ fcPc' = "idle"
    /\ fcResult' = NoFetchResult
    /\ UNCHANGED <<fcVariant, fcStore, fcNow, fcUrl, fcStart>>

FetchTick ==
    /\ fcNow < MaxFetchTime
    /\ fcNow' = fcNow + 1
    /\ UNCHANGED <<fcVariant, fcStore, fcPc, fcUrl, fcStart, fcResult, fcLog>>

FetchIdle ==
    /\ fcVariant = "getCachedPreview"
    /\ fcStore = [u \in FetchUrls |-> NoEntry]
    /\ fcNow = 0
    /\ fcPc = "idle"
    /\ fcUrl = "u1"
    /\ fcStart = 0
    /\ fcResult = NoFetchResult
    /\ fcLog = <<>>

----------------------------------------------------------------------------
(* scrapeMatchPreview run twice on the same url and unchanged markup       *)
(* (part_001:906-1067 with summarizeWithOllama 852-872; 2375-2536)         *)

RunsPerPage == 2

\* What the POST to the Ollama endpoint gives: the service cannot be
\* reached or answers with something that is not JSON; it answers without a
\* `response` text; it answers with a summary, which the language model
\* samples anew on every request.
SummariserReplies == {"unreachable", "no_response", "summary_a", "summary_b"}

\* getOverview (part_001:950-959): the first three paragraphs.
getOverview(doc) ==
    SubSeq(doc.pars, 1, IF Len(doc.pars) < 3 THEN Len(doc.pars) ELSE 3)

PlainText(text) == [summary |-> "none", text |-> text]

\* summarizeWithOllama (part_001:852-872): `data.response || text`, and
\* text again from the catch.
summarizeWithOllama(text, reply) ==
    IF reply \in {"unreachable", "no_response"}
    THEN PlainText(text)
    ELSE [summary |-> reply, text |-> <<>>]

\* The object scrapeMatchPreview returns (part_001:1035-1062, 2508-2531).
ScrapedPreview(url, fields, overview) ==
    [kind |-> "preview", url |-> url, fields |-> fields, overview |-> overview]

NullPreview == [kind |-> "null", url |-> "", fields |-> NoPreview,
                overview |-> PlainText(<<>>)]

RepeatInit ==
    /\ idVariant \in ScrapeVariants
    /\ idUrl \in FetchUrls
    /\ idDoc \in Docs
    /\ idPc = "call"
    /\ idExtracted = NoPreview
    /\ idResults = <<>>

\* One run up to the end of page.evaluate: null when the article anchor is
\* missing or the callback throws; the selectors copy returns at once, the
\* titleSplit copy goes on to the summariser.
RunExtracts ==
    /\ idPc = "call"
    /\ Len(idResults) < RunsPerPage
    /\ LET ex == Extract(idVariant, idDoc)
       IN IF ~idDoc.anchor \/ ex.threw
          THEN /\ idResults' = Append(idResults, NullPreview)
               /\ idPc' = "call"
               /\ idExtracted' = NoPreview
          ELSE IF idVariant = "titleSplit"
               THEN /\ idPc' = "summarise"
                    /\ idExtracted' = ex.preview
                    /\ idResults' = idResults
               ELSE /\ idResults' = Append(idResults,
                           ScrapedPreview(idUrl, ex.preview,
                                          PlainText(getOverview(idDoc))))
                    /\ idPc' = "call"
                    /\ idExtracted' = NoPreview
    /\ UNCHANGED <<idVariant, idUrl, idDoc>>

\* `await summarizeWithOllama(extractedData.overview)` and the return
\* (part_001:1030-1062).
RunSummarises(reply) ==
    /\ idPc = "summarise"
    /\ idResults' = Append(idResults,
           ScrapedPreview(idUrl, idExtracted,
                          summarizeWithOllama(getOverview(idDoc), reply)))
    /\ idPc' = "call"
    /\ idExtracted' = NoPreview
    /\ UNCHANGED <<idVariant, idUrl, idDoc>>

RepeatIdle ==
    /\ idVariant = "titleSplit"
    /\ idUrl = "u1"
    /\ idDoc = NoDoc
    /\ idPc = "call"
    /\ idExtracted = NoPreview
    /\ idResults = <<>>

----------------------------------------------------------------------------
(* DiscordBot.handleButtonClick  (discord-bot.ts:340-429), reached from    *)
(* the interactionCreate handler (50-57)                                   *)

MaxUrlLen == 3

US == "_"

UrlAlphabet == {"h", US}

Summary == <<"s", "u", "m", "m", "a", "r", "y">>
TeamNews == <<"t", "e", "a", "m", US, "n", "e", "w", "s">>
Prediction == <<"p", "r", "e", "d", "i", "c", "t", "i", "o", "n">>
Form == <<"f", "o", "r", "m">>
Load == <<"l", "o", "a", "d">>

\* The cases of the switch (lines 361-419).
HandledTypes == {Summary, TeamNews, Prediction, Form}

\* String.prototype.split("_"): always at least one element.
RECURSIVE SplitUnderscore(_)
SplitUnderscore(s) ==
    IF \A n \in 1..Len(s) : s[n] # US
    THEN <<s>>
    ELSE LET at == CHOOSE n \in 1..Len(s) :
                      s[n] = US /\ \A m \in 1..(n - 1) : s[m] # US
         IN <<SubSeq(s, 1, at - 1)>>
                \o SplitUnderscore(SubSeq(s, at + 1, Len(s)))

\* Array.prototype.join("_").
RECURSIVE JoinUnderscore(_)
JoinUnderscore(parts) ==
    IF parts = <<>> THEN <<>>
    ELSE IF Len(parts) = 1 THEN parts[1]
    ELSE parts[1] \o <<US>> \o JoinUnderscore(Tail(parts))

\* The customId of a button: 'load_' + dataType + '_' + url.
CustomId(dataType, url) == Load \o <<US>> \o dataType \o <<US>> \o url

Undefined == <<"undefined">>

\* `const [action, dataType, ...urlParts] = customId.split("_")` and
\* `urlParts.join("_")` (lines 343-344).
ParseCustomId(customId) ==
    LET parts == SplitUnderscore(customId)
    IN [action |-> parts[1],
        dataType |-> IF Len(parts) >= 2 THEN parts[2] ELSE Undefined,
        url |-> JoinUnderscore(SubSeq(parts, 3, Len(parts)))]

NotParsed == [action |-> <<>>, dataType |-> <<>>, url |-> <<>>]

ButtonInit ==
    /\ hbType \in HandledTypes
    /\ hbUrl \in StrsUpTo(UrlAlphabet, MaxUrlLen)
    /\ hbPc = "click"
    /\ hbParsed = NotParsed
    /\ hbCase = "none"

\* interactionCreate: `action === "load"` dispatches to handleButtonClick,
\* which parses the customId and asks for a page.
ButtonClick ==
    /\ hbPc = "click"
    /\ LET parsed == ParseCustomId(CustomId(hbType, hbUrl))
       IN /\ hbParsed' = parsed
          /\ IF parsed.action = Load
             THEN hbPc' = "scrape" /\ hbCase' = hbCase
             ELSE hbPc' = "done" /\ hbCase' = "ignored"
    /\ UNCHANGED <<hbType, hbUrl>>

\* scrapeMatchPreview(page, url) with the parsed url returns; a null
\* preview ends the call, otherwise the switch on dataType runs
\* (lines 350-419).
ButtonScraped(found) ==
    /\ hbPc = "scrape"
    /\ hbPc' = "done"
    /\ hbCase' =
          IF ~found THEN "could_not_load"
          ELSE IF hbParsed.dataType = Summary THEN "summary"
          ELSE IF hbParsed.dataType = TeamNews THEN "team_news"
          ELSE IF hbParsed.dataType = Prediction THEN "prediction"
          ELSE IF hbParsed.dataType = Form THEN "form"
          ELSE "invalid_button_type"
    /\ UNCHANGED <<hbType, hbUrl, hbParsed>>

\* newPage() or the scrape throws: the outer catch replies with an error.
ButtonFails ==
    /\ hbPc = "scrape"
    /\ hbPc' = "done"
    /\ hbCase' = "error_loading_data"
    /\ UNCHANGED <<hbType, hbUrl, hbParsed>>

ButtonIdle ==
    /\ hbType = Summary
    /\ hbUrl = <<>>
    /\ hbPc = "click"
    /\ hbParsed = NotParsed
    /\ hbCase = "none"

----------------------------------------------------------------------------
(* Specifications: one per component; the other components stay as         *)
(* constructed.                                                            *)

KeyFrame   == UNCHANGED <<cacheVars, navVars, splitVars, linkVars, bsVars, puVars,
                          mpVars, pbVars,
        fcVars,
        idVars,
        hbVars>>
CacheFrame == UNCHANGED <<keyVars, navVars, splitVars, linkVars, bsVars, puVars,
                          mpVars, pbVars,
        fcVars,
        idVars,
        hbVars>>
NavFrame   == UNCHANGED <<keyVars, cacheVars, splitVars, linkVars, bsVars, puVars,
                          mpVars, pbVars,
        fcVars,
        idVars,
        hbVars>>
SplitFrame == UNCHANGED <<keyVars, cacheVars, navVars, linkVars, bsVars, puVars,
                          mpVars, pbVars,
        fcVars,
        idVars,
        hbVars>>
LinksFrame == UNCHANGED <<keyVars, cacheVars, navVars, splitVars, bsVars, puVars,
                          mpVars, pbVars,
        fcVars,
        idVars,
        hbVars>>
BsFrame    == UNCHANGED <<keyVars, cacheVars, navVars, splitVars, linkVars,
                          puVars, mpVars, pbVars,
        fcVars,
        idVars,
        hbVars>>

KeyNext == DeriveKeys /\ KeyFrame

InitKey == KeyInit /\ CacheIdle /\ NavIdle /\ SplitIdle /\ LinksIdle
    /\ BrowserIdle /\ UnitsIdle /\ ScrapeIdle
    /\ PublishIdle
    /\ FetchIdle
    /\ RepeatIdle
    /\ ButtonIdle

SpecKey == InitKey /\ [][KeyNext]_vars

CacheNext ==
    \/ Tick /\ CacheFrame
    \/ \E p \in CacheCallers, k \in CacheKeys, d \in CacheValues, t \in 1..MaxTtl :
          SetStart(p, k, d, t) /\ CacheFrame
    \/ \E p \in CacheCallers : SetOpen(p) /\ CacheFrame
    \/ \E p \in CacheCallers : SetWrite(p) /\ CacheFrame
    \/ \E p \in CacheCallers, k \in CacheKeys : GetRead(p, k) /\ CacheFrame
    \/ \E p \in CacheCallers : GetDelete(p) /\ CacheFrame
    \/ \E p \in CacheCallers, k \in CacheKeys : Delete(p, k) /\ CacheFrame
    \/ \E f \in FileNames : Corrupt(f) /\ CacheFrame

InitCache == KeyIdle /\ CacheInit /\ NavIdle /\ SplitIdle /\ LinksIdle
    /\ BrowserIdle /\ UnitsIdle /\ ScrapeIdle
    /\ PublishIdle
    /\ FetchIdle
    /\ RepeatIdle
    /\ ButtonIdle

SpecCache == InitCache /\ [][CacheNext]_vars

\* No other caller is inside a cache call.
CacheAlone(p) == \A q \in CacheCallers \ {p} : cpc[q] = IdleCall

\* Cache calls are made one after the other.
CacheNextSeq ==
    \/ Tick /\ CacheFrame
    \/ \E p \in CacheCallers, k \in CacheKeys, d \in CacheValues, t \in 1..MaxTtl :
          CacheAlone(p) /\ SetStart(p, k, d, t) /\ CacheFrame
    \/ \E p \in CacheCallers : CacheAlone(p) /\ SetOpen(p) /\ CacheFrame
    \/ \E p \in CacheCallers : CacheAlone(p) /\ SetWrite(p) /\ CacheFrame
    \/ \E p \in CacheCallers, k \in CacheKeys :
          CacheAlone(p) /\ GetRead(p, k) /\ CacheFrame
    \/ \E p \in CacheCallers : CacheAlone(p) /\ GetDelete(p) /\ CacheFrame
    \/ \E p \in CacheCallers, k \in CacheKeys :
          CacheAlone(p) /\ Delete(p, k) /\ CacheFrame
    \/ \E f \in FileNames : Corrupt(f) /\ CacheFrame

SpecCacheSeq == InitCache /\ [][CacheNextSeq]_vars

NavNext ==
    \/ NavCall /\ NavFrame
    \/ \E kind \in ResolveKinds : AttemptResolves(kind) /\ NavFrame
    \/ \E kind \in ThrowKinds : AttemptThrows(kind) /\ NavFrame
    \/ BackoffDone /\ NavFrame

InitNav == KeyIdle /\ CacheIdle /\ NavInit /\ SplitIdle /\ LinksIdle
    /\ BrowserIdle /\ UnitsIdle /\ ScrapeIdle
    /\ PublishIdle
    /\ FetchIdle
    /\ RepeatIdle
    /\ ButtonIdle

SpecNav == InitNav /\ [][NavNext]_vars

SplitNext == SplitMessageCall /\ SplitFrame

InitSplit == KeyIdle /\ CacheIdle /\ NavIdle /\ SplitInit /\ LinksIdle
    /\ BrowserIdle /\ UnitsIdle /\ ScrapeIdle
    /\ PublishIdle
    /\ FetchIdle
    /\ RepeatIdle
    /\ ButtonIdle

SpecSplit == InitSplit /\ [][SplitNext]_vars

LinksNext ==
    \/ GetPreviewLinksGrouped /\ LinksFrame
    \/ GetPreviewLinksTable /\ LinksFrame

InitLinks == KeyIdle /\ CacheIdle /\ NavIdle /\ SplitIdle /\ LinksInit
    /\ BrowserIdle /\ UnitsIdle /\ ScrapeIdle
    /\ PublishIdle
    /\ FetchIdle
    /\ RepeatIdle
    /\ ButtonIdle

SpecLinks == InitLinks /\ [][LinksNext]_vars

\* Calls of several units of work overlap in any way.
BrowserNext ==
    \/ \E p \in Callers : NewPageCall(p) /\ BsFrame
    \/ \E p \in Callers : InitializeCall(p) /\ BsFrame
    \/ \E p \in Callers : LaunchDone(p) /\ BsFrame
    \/ \E p \in Callers : LaunchFails(p) /\ BsFrame
    \/ \E p \in Callers : NewContextDone(p) /\ BsFrame
    \/ \E p \in Callers : NewContextFails(p) /\ BsFrame
    \/ \E p \in Callers : BlockerDone(p) /\ BsFrame
    \/ \E p \in Callers : BlockerFails(p) /\ BsFrame
    \/ \E p \in Callers : RouteDone(p) /\ BsFrame
    \/ \E p \in Callers : NewPageDone(p) /\ BsFrame
    \/ \E p \in Callers : CloseCall(p) /\ BsFrame
    \/ \E p \in Callers : CloseContextDone(p) /\ BsFrame
    \/ \E p \in Callers : CloseBrowserDone(p) /\ BsFrame

InitBrowser ==
    KeyIdle /\ CacheIdle /\ NavIdle /\ SplitIdle /\ LinksIdle /\ BrowserInit
    /\ UnitsIdle /\ ScrapeIdle
    /\ PublishIdle
    /\ FetchIdle
    /\ RepeatIdle
    /\ ButtonIdle

SpecBrowser == InitBrowser /\ [][BrowserNext]_vars

\* Calls are made one after the other: a step is taken by a caller while
\* no other caller is inside a call.
BrowserNextSeq ==
    \/ \E p \in Callers : Alone(p) /\ NewPageCall(p) /\ BsFrame
    \/ \E p \in Callers : Alone(p) /\ InitializeCall(p) /\ BsFrame
    \/ \E p \in Callers : Alone(p) /\ LaunchDone(p) /\ BsFrame
    \/ \E p \in Callers : Alone(p) /\ LaunchFails(p) /\ BsFrame
    \/ \E p \in Callers : Alone(p) /\ NewContextDone(p) /\ BsFrame
    \/ \E p \in Callers : Alone(p) /\ NewContextFails(p) /\ BsFrame
    \/ \E p \in Callers : Alone(p) /\ BlockerDone(p) /\ BsFrame
    \/ \E p \in Callers : Alone(p) /\ BlockerFails(p) /\ BsFrame
    \/ \E p \in Callers : Alone(p) /\ RouteDone(p) /\ BsFrame
    \/ \E p \in Callers : Alone(p) /\ NewPageDone(p) /\ BsFrame
    \/ \E p \in Callers : Alone(p) /\ CloseCall(p) /\ BsFrame
    \/ \E p \in Callers : Alone(p) /\ CloseContextDone(p) /\ BsFrame
    \/ \E p \in Callers : Alone(p) /\ CloseBrowserDone(p) /\ BsFrame

SpecBrowserSeq == InitBrowser /\ [][BrowserNextSeq]_vars

UnitsFrame == UNCHANGED <<keyVars, cacheVars, navVars, splitVars, linkVars,
                          bsVars, mpVars, pbVars,
        fcVars,
        idVars,
        hbVars>>

UnitsNext ==
    \/ \E unit \in PageUnits : UnitCacheHit(unit) /\ UnitsFrame
    \/ \E unit \in PageUnits : UnitOpensPage(unit) /\ UnitsFrame
    \/ GetPageLoads /\ UnitsFrame
    \/ \E kind \in GotoFailures : GetPageAttemptFails(kind) /\ UnitsFrame
    \/ GetPageRetryWaitDone /\ UnitsFrame
    \/ \E ret \in {"value", "null"} : BodyReturns(ret) /\ UnitsFrame
    \/ \E kind \in BodyFailures : BodyThrows(kind) /\ UnitsFrame
    \/ FinallyDone /\ UnitsFrame

InitUnits == KeyIdle /\ CacheIdle /\ NavIdle /\ SplitIdle /\ LinksIdle
    /\ BrowserIdle /\ UnitsInit /\ ScrapeIdle /\ PublishIdle
    /\ FetchIdle
    /\ RepeatIdle
    /\ ButtonIdle

SpecUnits == InitUnits /\ [][UnitsNext]_vars

ScrapeFrame == UNCHANGED <<keyVars, cacheVars, navVars, splitVars, linkVars,
                           bsVars, puVars, pbVars,
        fcVars,
        idVars,
        hbVars>>

ScrapeNext ==
    \/ ScrapeCall /\ ScrapeFrame
    \/ NavigationSucceeds /\ ScrapeFrame
    \/ NavigationExhausted /\ ScrapeFrame
    \/ WaitForAnchor /\ ScrapeFrame
    \/ Evaluate /\ ScrapeFrame
    \/ EvaluateRejects /\ ScrapeFrame
    \/ MainHandlesResult /\ ScrapeFrame
    \/ \E ok \in BOOLEAN : SendToDiscordEnds(ok) /\ ScrapeFrame
    \/ MatchDelayDone /\ ScrapeFrame

InitScrape == KeyIdle /\ CacheIdle /\ NavIdle /\ SplitIdle /\ LinksIdle
    /\ BrowserIdle /\ UnitsIdle /\ ScrapeInit /\ PublishIdle
    /\ FetchIdle
    /\ RepeatIdle
    /\ ButtonIdle

SpecScrape == InitScrape /\ [][ScrapeNext]_vars

PublishFrame == UNCHANGED <<keyVars, cacheVars, navVars, splitVars, linkVars,
                            bsVars, puVars, mpVars,
        fcVars,
        idVars,
        hbVars>>

PublishNext ==
    \/ \E found \in BOOLEAN : GetChannel(found) /\ PublishFrame
    \/ \E ok \in BOOLEAN : BotSendSummary(ok) /\ PublishFrame
    \/ \E ok \in BOOLEAN : BotStartThread(ok) /\ PublishFrame
    \/ BotSkipMatch /\ PublishFrame
    \/ \E ok \in BOOLEAN : BotSendMatch(ok) /\ PublishFrame
    \/ \E ok \in BOOLEAN : ScriptSendHeader(ok) /\ PublishFrame
    \/ \E ok \in BOOLEAN : ScriptSendSectionSummary(ok) /\ PublishFrame
    \/ \E ok \in BOOLEAN : ScriptSendThreadHeader(ok) /\ PublishFrame
    \/ \E ok \in BOOLEAN : ScriptStartThread(ok) /\ PublishFrame
    \/ ScriptScrapeMatch /\ PublishFrame
    \/ \E ok \in BOOLEAN : ScriptSendChunk(ok) /\ PublishFrame

InitPublish == KeyIdle /\ CacheIdle /\ NavIdle /\ SplitIdle /\ LinksIdle
    /\ BrowserIdle /\ UnitsIdle /\ ScrapeIdle /\ PublishInit
    /\ FetchIdle
    /\ RepeatIdle
    /\ ButtonIdle

SpecPublish == InitPublish /\ [][PublishNext]_vars

FetchFrame == UNCHANGED <<keyVars, cacheVars, navVars, splitVars, linkVars,
        bsVars, puVars, mpVars, pbVars,
        idVars,
        hbVars>>

FetchNext ==
    \/ \E url \in FetchUrls : FetchCall(url) /\ FetchFrame
    \/ \E ok \in BOOLEAN : PageOpens(ok) /\ FetchFrame
    \/ \E data \in {"preview", Null, "html", "previews", "empty_list"} :
          ScrapeReturns(data) /\ FetchFrame
    \/ ScrapeThrows /\ FetchFrame
    \/ PageCloses /\ FetchFrame
    \/ FetchTick /\ FetchFrame

InitFetch == KeyIdle /\ CacheIdle /\ NavIdle /\ SplitIdle /\ LinksIdle
    /\ BrowserIdle /\ UnitsIdle /\ ScrapeIdle /\ PublishIdle /\ FetchInit
    /\ RepeatIdle
    /\ ButtonIdle

SpecFetch == InitFetch /\ [][FetchNext]_vars

RepeatFrame == UNCHANGED <<keyVars, cacheVars, navVars, splitVars, linkVars,
        bsVars, puVars, mpVars, pbVars, fcVars,
        hbVars>>

RepeatNext ==
    \/ RunExtracts /\ RepeatFrame
    \/ \E reply \in SummariserReplies : RunSummarises(reply) /\ RepeatFrame

InitRepeat == KeyIdle /\ CacheIdle /\ NavIdle /\ SplitIdle /\ LinksIdle
    /\ BrowserIdle /\ UnitsIdle /\ ScrapeIdle /\ PublishIdle /\ FetchIdle
    /\ RepeatInit
    /\ ButtonIdle

SpecRepeat == InitRepeat /\ [][RepeatNext]_vars

ButtonFrame == UNCHANGED <<keyVars, cacheVars, navVars, splitVars, linkVars,
        bsVars, puVars, mpVars, pbVars, fcVars, idVars>>

ButtonNext ==
    \/ ButtonClick /\ ButtonFrame
    \/ \E found \in BOOLEAN : ButtonScraped(found) /\ ButtonFrame
    \/ ButtonFails /\ ButtonFrame

InitButton == KeyIdle /\ CacheIdle /\ NavIdle /\ SplitIdle /\ LinksIdle
    /\ BrowserIdle /\ UnitsIdle /\ ScrapeIdle /\ PublishIdle /\ FetchIdle
    /\ RepeatIdle /\ ButtonInit

SpecButton == InitButton /\ [][ButtonNext]_vars

----------------------------------------------------------------------------
(* Claims about the Cache                                                  *)

\* C1: after set(k, d, ttl) has completed, with no later set or delete on k,
\* a get(k) whose expiry check runs before expiresAt returns d and one whose
\* check runs after expiresAt returns null.
C1_SetThenGet ==
    (last.op = "get" /\ lastSet[last.key].kind = "set") =>
        LET s == lastSet[last.key]
        IN /\ (now < s.expiresAt => last.val = s.data)
           /\ (now > s.expiresAt => last.val = Null)

\* C2: key derivation is injective: distinct logical keys get distinct
\* storage identifiers.
C2_KeyInjective ==
    (kdId1 # <<>> /\ kdK1 # kdK2) => kdId1 # kdId2

----------------------------------------------------------------------------
(* Claims about navigateWithRetry                                          *)

\* C3 as stated: on a page whose navigation throws on every attempt the call
\* makes exactly maxRetries attempts and then raises, for maxRetries in 0..N.
C3_AlwaysRaises ==
    (nvPc = "done" /\ nvPage = "always_throws") =>
        (nvRet = "raised" /\ NavAttempts = nvMax)

\* C3 amended: for maxRetries >= 1 the call makes exactly maxRetries attempts
\* and then raises; for maxRetries = 0 it makes no attempt and returns false
\* without raising.
C3_RaisesUnlessZero ==
    (nvPc = "done" /\ nvPage = "always_throws") =>
        /\ NavAttempts = nvMax
        /\ (nvMax >= 1 => nvRet = "raised")
        /\ (nvMax = 0 => nvRet = "false")

C3_Witness ==
    /\ nvPc = "done"
    /\ nvPage = "always_throws"
    /\ nvMax = MaxRetriesArg
    /\ nvRet = "raised"
    /\ NavAttempts = MaxRetriesArg

----------------------------------------------------------------------------
(* Claims about splitMessage                                               *)

\* C6: no returned chunk is longer than maxLength.
C6_ChunksWithinLimit ==
    smPc = "done" => \A n \in 1..Len(smChunks) : Len(smChunks[n]) <= smMax

\* The chunks joined with a newline between consecutive chunks.
RECURSIVE JoinNL(_)
JoinNL(chunks) ==
    IF Len(chunks) <= 1 THEN Concat(chunks)
    ELSE Head(chunks) \o <<NL>> \o JoinNL(Tail(chunks))

\* C7 as stated: content within the limit comes back as the one-element
\* list; longer content is exactly what the chunks concatenate to, whether
\* they are put end to end or joined with newlines.
C7_ExactRoundTrip ==
    smPc = "done" =>
        /\ (Len(smContent) <= smMax => smChunks = <<smContent>>)
        /\ (Len(smContent) > smMax =>
                (Concat(smChunks) = smContent \/ JoinNL(smChunks) = smContent))

\* C7 amended: content within the limit comes back as the one-element list;
\* for longer content the chunks put end to end are the original content
\* followed by one newline (every line once, in order, each ended by a
\* newline).
C7_RoundTripPlusNewline ==
    smPc = "done" =>
        /\ (Len(smContent) <= smMax => smChunks = <<smContent>>)
        /\ (Len(smContent) > smMax => Concat(smChunks) = smContent \o <<NL>>)

C7_Witness ==
    /\ smPc = "done"
    /\ Len(smContent) > smMax
    /\ Len(smChunks) >= 2
    /\ \A n \in 1..Len(smChunks) : Len(smChunks[n]) \in 1..smMax

----------------------------------------------------------------------------
(* Claims about getPreviewLinks                                            *)

HeaderPositions == {n \in 1..Len(glListing) : glListing[n].kind = "header"}

\* The rows under the header at position h, up to the next header.
Block(h) ==
    {n \in (h + 1)..Len(glListing) :
        \A k \in (h + 1)..n : glListing[k].kind # "header"}

\* Rows with both a time and a title, under a header that has a name.
QualifyingRows ==
    {n \in 1..Len(glListing) :
        /\ glListing[n].kind = "match"
        /\ glListing[n].time # ""
        /\ glListing[n].title # ""
        /\ \E h \in HeaderPositions : n \in Block(h) /\ glListing[h].name # ""}

\* Where the row at position n appears in the result.
Occurrences(n) ==
    {<<i, k>> \in (1..MaxRows) \X (1..MaxRows) :
        /\ i <= Len(glResult)
        /\ k <= Len(glResult[i].matches)
        /\ glResult[i].matches[k].url.row = n}

\* C8: an entry is returned if and only if it has a non-empty time and a
\* non-empty title: no returned match lacks either, and every qualifying row
\* under a header is returned exactly once.
C8_IncludedIffTimeAndTitle ==
    glPc = "done" =>
        /\ \A i \in 1..Len(glResult) : \A k \in 1..Len(glResult[i].matches) :
              /\ glResult[i].matches[k].time # ""
              /\ glResult[i].matches[k].match # ""
        /\ \A n \in QualifyingRows : Cardinality(Occurrences(n)) = 1

\* C9: every returned section is the section of one header, the sections
\* follow the document order of those headers, each section lists rows of
\* its own header's block in document order, and the last header's section
\* is not returned when it has no matches.
C9_DocumentOrder ==
    glPc = "done" =>
        \E f \in [1..Len(glResult) -> HeaderPositions] :
            /\ \A i, j \in 1..Len(glResult) : i < j => f[i] < f[j]
            /\ \A i \in 1..Len(glResult) :
                  LET ms == glResult[i].matches
                  IN /\ glResult[i].section = glListing[f[i]].name
                     /\ \A k \in 1..Len(ms) : ms[k].url.row \in Block(f[i])
                     /\ \A k, l \in 1..Len(ms) :
                           k < l => ms[k].url.row < ms[l].url.row
                     /\ (\A h \in HeaderPositions : h <= f[i]) => ms # <<>>

----------------------------------------------------------------------------
(* Claims about BrowserService                                             *)

\* C4: as long as close() has not been called (and no launch or set-up step
\* has failed), overlapping newPage()/initialize() calls launch at most one
\* browser and create at most one context.
C4_OneSession ==
    (bsHist \cap {"close", "fail"} = {}) =>
        (bsLaunched <= 1 /\ Cardinality(bsCtxMade) <= 1)

\* C5: when only newPage() calls overlap and every launch and context
\* creation succeeds, no call raises "Browser context not initialized".
C5_NoContextError ==
    (bsHist = {}) =>
        \A p \in Callers : bsRet[p].kind # "err_context_not_initialized"

\* C10, first part: close() called with neither browser nor context set
\* returns at once without raising and changes nothing.
C10_CloseNoOp ==
    [][\A p \in Callers :
         (bsPc[p] = Idle /\ bsPc'[p] = Idle /\ bsBrowser = 0 /\ bsContext = 0
            /\ "close" \in bsHist' /\ bsRet'[p] # bsRet[p])
         => /\ bsRet'[p].kind = "ok"
            /\ UNCHANGED <<bsBrowser, bsContext, bsBlocker, bsLaunched,
                           bsCtxMade, bsClosedB, bsClosedC>>]_vars

\* C10, second part: when close() completes, browser and context are unset.
C10_CloseUnsets ==
    [][\A p \in Callers :
         (bsPc[p].from = "close" /\ bsPc'[p] = Idle)
         => (bsBrowser' = 0 /\ bsContext' = 0)]_vars

\* C10, third part: a newPage() called with nothing initialised launches a
\* browser, and the page a newPage() returns belongs to the instance's
\* current context, created on its current browser, neither ever closed.
C10_FreshSession ==
    [][\A p \in Callers :
         /\ (bsPc[p] = Idle /\ bsPc'[p].from = "newPage"
                /\ bsBrowser = 0 /\ bsContext = 0)
            => (bsLaunched' = bsLaunched + 1 /\ bsPc'[p].at = "launch")
         /\ (bsPc[p].at = "new_page" /\ bsRet'[p].kind = "page")
            => /\ bsRet'[p].ctx = bsContext'
               /\ bsRet'[p].ctx = bsBrowser'
               /\ bsRet'[p].ctx \notin (bsClosedB' \cup bsClosedC')]_vars

\* C10: calls made one after the other: close() with nothing initialised is
\* a no-op; close() on an initialised service leaves browser and context
\* unset; the next newPage() launches a fresh browser and context and
\* returns a page of that context.
C10_CloseThenReinitialise ==
    C10_CloseNoOp /\ C10_CloseUnsets /\ C10_FreshSession

\* A page was returned from a session launched after an earlier one was
\* closed.
C10_Witness ==
    \E p \in Callers :
        /\ bsRet[p].kind = "page"
        /\ bsRet[p].ctx = bsContext
        /\ bsClosedB # {}
        /\ \A b \in bsClosedB : b < bsRet[p].ctx

----------------------------------------------------------------------------
(* Claims about units of work that open a page                             *)

\* C11: when a unit of work has returned or raised, the page it opened is
\* closed, on the failure paths as well as on success.
C11_PageClosedOnExit ==
    (puDone.page # 0) => puDone.page \notin puOpen

----------------------------------------------------------------------------
(* Claims about scrapeMatchPreview                                         *)

\* What each field is when it is read on its own from the document.
FieldsReadIndependently(p, doc) ==
    /\ p.competition = NodeText(doc, "competition")
    /\ p.venue = NodeText(doc, "venue")
    /\ p.kickoff = NodeText(doc, "kickoff")
    /\ p.referee = NodeText(doc, "referee")
    /\ p.prediction = FindPrediction(doc)
    /\ (~doc.hasVs => p.awayTeam = "")
    /\ ((\A n \in 1..Len(doc.pars) : doc.pars[n] # "heading")
           /\ doc.teamNodes = {}
          => p.teamNews = [home |-> <<>>, away |-> <<>>])

\* C12: when the content anchor is present and the extraction itself is not
\* interrupted, the call returns a MatchPreview whatever subset of the
\* other inputs is missing, each field being what the document holds for
\* it or empty.
C12_FieldsIndependent ==
    (mpPc = "scraped" /\ mpDoc.anchor /\ mpRet.cause # "page_error") =>
        /\ mpRet.kind = "preview"
        /\ FieldsReadIndependently(mpRet.preview, mpDoc)

\* C13: scrapeMatchPreview never raises: a missing anchor, a failed
\* extraction and exhausted navigation retries all give null; and after a
\* null result main goes on to the pause and then to the next match.
C13_NullNotRaise ==
    /\ [](mpRet.kind # "raised")
    /\ [](mpPc = "scraped" /\ mpRet.cause # "none" => mpRet.kind = "null")
    /\ [][mpPc = "scraped" /\ mpRet.kind = "null" =>
            mpPc' = "delay" /\ mpIdx' = mpIdx]_vars
    /\ [][mpPc = "delay" /\ mpIdx < mpN =>
            mpPc' = "loop" /\ mpIdx' = mpIdx + 1]_vars

\* main has gone to its second match after the scrape of the first one
\* returned null.
C13_Witness ==
    /\ mpIdx = 2
    /\ mpPc = "nav"
    /\ mpLog = <<"null">>

----------------------------------------------------------------------------
(* Claims about the publisher                                              *)

\* The publisher has started on the threads: its overview was sent.
ThreadsBegun == pbAttempts # {}

\* C14: once the publisher is done, having started on the threads, every
\* section has had its thread started on, and in every section whose thread
\* was created every match with a preview has had its message started on,
\* whatever failed before it.
C14_FailuresIsolated ==
    (pbPc = PbDone /\ ThreadsBegun) =>
        /\ \A sec \in 1..Len(pbSections) : Unit("thread", sec, 0) \in pbAttempts
        /\ \A sec \in pbThreads : \A m \in 1..Len(pbSections[sec]) :
              pbSections[sec][m] # "none" => Unit("match", sec, m) \in pbAttempts

\* C15: every message sent to a section thread is at most the platform's
\* limit long.
C15_ThreadMessagesWithinLimit ==
    \A n \in 1..Len(pbSent) :
        pbSent[n].kind = "match" => pbSent[n].len <= DiscordLimit

OverviewKinds == {"summary", "header", "section_summary"}

OverviewPositions == {n \in 1..Len(pbSent) : pbSent[n].kind \in OverviewKinds}

----------------------------------------------------------------------------
(* Further claims about the Cache                                          *)

\* C17: get(k) returns null exactly when the entry for k is absent (never
\* set, or deleted), unreadable, or past its expiry.
C17_NullExactlyWhen ==
    last.op = "get" =>
        LET f == files[getCacheKey(last.key)]
        IN (last.val = Null) <=>
              \/ lastSet[last.key].kind = "none"
              \/ f.kind # "entry"
              \/ now > f.expiresAt

\* C18: a get on corrupt backing data returns null and a delete of an
\* absent key completes, neither raises, and both leave every stored entry
\* as it was.
C18_MissesAreNotErrors ==
    /\ [](last.op \in {"get", "delete"} => last.val # "raised")
    /\ [][(last'.op = "get" /\ files[getCacheKey(last'.key)].kind = "corrupt")
            => (last'.val = Null /\ files' = files /\ cpc' = cpc)]_vars
    /\ [][(last'.op = "delete" /\ files[getCacheKey(last'.key)].kind = "absent")
            => (last'.val = "void" /\ files' = files)]_vars

\* A get has just returned null on a corrupt file while another key's
\* entry is stored.
C18_Witness ==
    /\ last.op = "get"
    /\ last.val = Null
    /\ files[getCacheKey(last.key)].kind = "corrupt"
    /\ \E f \in FileNames : files[f].kind = "entry"

----------------------------------------------------------------------------
(* Further claims about navigateWithRetry                                  *)

\* The number of the attempt recorded at position n of the log (1-based).
AttemptNo(n) == Cardinality({m \in 1..n : nvLog[m] # "wait"})

\* The last entry of the log is a wait whose following attempt has not been
\* recorded yet.
LogEndsInWait == nvLog # <<>> /\ nvLog[Len(nvLog)] = "wait"

\* C19: the call proceeds attempt, backoff wait, attempt, ...: a wait follows
\* each failed attempt that is not the last permitted one, exactly once; no
\* wait follows a success or the last permitted attempt; nothing follows a
\* success; and when the last permitted attempt fails the call raises that
\* attempt's error.
C19_AttemptBackoffOrder ==
    /\ NavAttempts <= nvMax
    /\ \A n \in 1..Len(nvLog) :
          /\ nvLog[n] = "wait" =>
                /\ n > 1
                /\ nvLog[n - 1] \in ThrowKinds
                /\ AttemptNo(n - 1) < nvMax
                /\ (n < Len(nvLog) => nvLog[n + 1] # "wait")
          /\ nvLog[n] \in ResolveKinds =>
                /\ n = Len(nvLog)
                /\ nvPc = "done"
                /\ nvRet = "true"
          /\ (nvLog[n] \in ThrowKinds /\ AttemptNo(n) < nvMax) =>
                IF n = Len(nvLog)
                THEN nvPc = "backoff" /\ nvRet = "none"
                ELSE nvLog[n + 1] = "wait"
          /\ (nvLog[n] \in ThrowKinds /\ AttemptNo(n) = nvMax) =>
                /\ n = Len(nvLog)
                /\ nvPc = "done"
                /\ nvRet = "raised"
                /\ nvErr = nvLog[n]
    /\ LogEndsInWait => nvPc = "attempt"
    /\ nvRet = "raised" =>
          /\ nvLog # <<>>
          /\ nvErr = nvLog[Len(nvLog)]
          /\ NavAttempts = nvMax

C19_Witness ==
    /\ nvPc = "done"
    /\ nvMax = 3
    /\ nvRet = "raised"
    /\ nvErr = "cdp_error"
    /\ nvLog = <<"timeout", "wait", "net_error", "wait", "cdp_error">>

\* The failure types C20 names.
NamedFailures == {"timeout", "net_error", "http_error"}

\* C20: an attempt that ends in a timeout, a network error or a non-2xx
\* response is a failed attempt whatever its type: it is followed by the
\* backoff wait and a further attempt when it is not the last permitted
\* one, and by a raise when it is.
C20_FailuresRetriedAlike ==
    \A n \in 1..Len(nvLog) :
        nvLog[n] \in NamedFailures =>
            IF AttemptNo(n) < nvMax
            THEN IF n = Len(nvLog)
                 THEN nvPc = "backoff"
                 ELSE nvLog[n + 1] = "wait"
            ELSE nvPc = "done" /\ nvRet = "raised"

----------------------------------------------------------------------------
(* Claims about get-cached-or-scrape                                       *)

\* C21: a call that finds an entry younger than the TTL (an earlier call on
\* the same url stored it, and the call starts less than the TTL after the
\* timestamp the entry carries) returns the cached value without opening a
\* page, so the url is not scraped again.
C21_FreshEntryNotRescraped ==
    \A i \in DOMAIN fcLog, j \in DOMAIN fcLog :
        (/\ i < j
         /\ fcLog[i].url = fcLog[j].url
         /\ fcLog[i].stored
         /\ fcLog[j].start - fcLog[i].stamp < FetchTtl) =>
            /\ ~fcLog[j].opened
            /\ fcLog[j].ret = fcLog[i].data

C21_Witness ==
    /\ Len(fcLog) >= 2
    /\ fcVariant = "getPageContent"
    /\ fcLog[1].stored
    /\ fcLog[2].url = fcLog[1].url
    /\ fcLog[2].start > fcLog[1].stamp
    /\ ~fcLog[2].opened
    /\ fcLog[2].ret = "html"

\* C28: getCachedPreview stores a null scrape result: after a call on url
\* whose scrape returned null, every call on url that starts less than
\* CACHE_TTL after that call started returns null without opening a page.
C28_NullIsCached ==
    fcVariant = "getCachedPreview" =>
        \A i \in DOMAIN fcLog, j \in DOMAIN fcLog :
            (/\ i < j
             /\ fcLog[i].url = fcLog[j].url
             /\ fcLog[i].opened
             /\ fcLog[i].ret = Null
             /\ fcLog[j].start - fcLog[i].start < FetchTtl) =>
                /\ fcLog[j].ret = Null
                /\ ~fcLog[j].opened

C28_Witness ==
    /\ fcVariant = "getCachedPreview"
    /\ Len(fcLog) >= 2
    /\ fcLog[1].opened
    /\ fcLog[1].ret = Null
    /\ fcLog[2].url = fcLog[1].url
    /\ fcLog[2].start = fcLog[1].start + 1
    /\ fcLog[2].ret = Null
    /\ ~fcLog[2].opened

----------------------------------------------------------------------------
(* Claims about repeated scrapes                                           *)

\* C22: two runs of scrapeMatchPreview on the same url and the same
\* document return identical results, and a returned preview carries the
\* requested url, in both copies.
C22_ScrapeIdempotent ==
    Len(idResults) = RunsPerPage =>
        /\ idResults[1] = idResults[2]
        /\ \A n \in 1..RunsPerPage :
              idResults[n].kind = "preview" => idResults[n].url = idUrl

----------------------------------------------------------------------------
(* Further claims about BrowserService                                     *)

\* The unit of work p holds a page it got from newPage() and has not begun
\* its own cleanup.
HoldsPage(p) == bsPc[p] = Idle /\ bsRet[p].kind = "page"

\* C23: while a unit of work holds a page, the context the page belongs to
\* is not torn down by another unit's close().
C23_PagesIndependent ==
    \A p \in Callers : HoldsPage(p) => ~DeadContext(bsRet[p].ctx)

----------------------------------------------------------------------------
(* Claims about concurrent Cache calls                                     *)

\* No other logical key is stored in the file of k.
OwnFile(k) ==
    \A k2 \in CacheKeys \ {k} : getCacheKey(k2) # getCacheKey(k)

\* No set is in progress on the file of k.
NoSetInProgress(k) ==
    \A p \in CacheCallers :
        cpc[p].op \in {"set_open", "set_write"} =>
            getCacheKey(cpc[p].key) # getCacheKey(k)

\* C24: once the sets on a key have completed, the stored entry is the
\* complete entry of the set that wrote last, so that a get within the ttl
\* returns that set's value: never a mixture of two entries, never a miss.
C24_LastWriterWins ==
    (/\ last.op = "set"
     /\ OwnFile(last.key)
     /\ NoSetInProgress(last.key)) =>
        LET f == files[getCacheKey(last.key)]
        IN /\ f.kind = "entry"
           /\ f.data = lastSet[last.key].data
           /\ f.expiresAt = lastSet[last.key].expiresAt

\* C26: the delete that get performs after reading an expired entry removes
\* no entry that is not expired.
C26_GetDeletesOnlyExpired ==
    [][\A p \in CacheCallers :
          (/\ cpc[p].op = "get_delete"
           /\ cpc'[p] = IdleCall
           /\ files[getCacheKey(cpc[p].key)].kind = "entry") =>
              now > files[getCacheKey(cpc[p].key)].expiresAt]_vars

----------------------------------------------------------------------------
(* Claims about team-news attribution                                      *)

\* Position of the first 'team news' heading paragraph, 0 when there is none.
HeadingAt(doc) ==
    IF \E n \in 1..Len(doc.pars) : doc.pars[n] = "heading"
    THEN CHOOSE n \in 1..Len(doc.pars) :
             /\ doc.pars[n] = "heading"
             /\ \A m \in 1..(n - 1) : doc.pars[m] # "heading"
    ELSE 0

\* The paragraphs of the given kind that follow the heading, in document
\* order.
FollowingOfKind(doc, kind) ==
    LET h == HeadingAt(doc)
        Keep(par) == par = kind
    IN IF h = 0 THEN <<>>
       ELSE SelectSeq(SubSeq(doc.pars, h + 1, Len(doc.pars)), Keep)

\* C25: in the copy that attributes by team name, the paragraphs after the
\* 'team news' heading that contain the home team name make up
\* teamNews.home, those that contain the away team name (and not the home
\* team name) make up teamNews.away, each in document order, and no other
\* paragraph is in either list.
C25_TeamNewsAttribution ==
    (/\ mpVariant = "titleSplit"
     /\ mpPc = "scraped"
     /\ mpDoc.anchor
     /\ mpRet.cause # "page_error") =>
        /\ mpRet.kind = "preview"
        /\ mpRet.preview.teamNews.home = FollowingOfKind(mpDoc, "first")
        /\ mpRet.preview.teamNews.away = FollowingOfKind(mpDoc, "second")

----------------------------------------------------------------------------
(* Further claims about splitMessage                                       *)

\* C27: for non-empty content and maxLength >= 1 no returned chunk is the
\* empty string.
C27_NoEmptyChunk ==
    (smPc = "done" /\ smContent # <<>> /\ smMax >= 1) =>
        \A n \in 1..Len(smChunks) : smChunks[n] # <<>>

----------------------------------------------------------------------------
(* Claims about a half-initialised BrowserService                          *)

\* Between calls, the service has a browser and no context.
HalfInitialised ==
    /\ bsBrowser # 0
    /\ bsContext = 0
    /\ \A p \in Callers : bsPc[p] = Idle

\* C29: when initialize() fails at newContext after the launch, the service
\* keeps the browser and has no context; from then on, until close() is
\* called, a newPage() raises 'Browser context not initialized' and nothing
\* is launched or created; close() then closes that browser and unsets it,
\* and a newPage() on the service without a browser starts with a launch.
C29_StuckUntilClose ==
    /\ [][\A p \in Callers :
            (bsPc[p].at = "new_context" /\ bsPc'[p] = Idle) =>
                HalfInitialised' /\ bsRet'[p].kind = "err_new_context"]_vars
    /\ [][(HalfInitialised /\ \A p \in Callers : bsPc'[p].from # "close") =>
            /\ HalfInitialised'
            /\ bsBrowser' = bsBrowser
            /\ bsLaunched' = bsLaunched
            /\ bsCtxMade' = bsCtxMade
            /\ \A p \in Callers :
                  bsRet'[p] # bsRet[p] =>
                      bsRet'[p].kind \in {"err_context_not_initialized", "ok"}]_vars
    /\ [][\A p \in Callers :
            (HalfInitialised /\ bsPc'[p].from = "close") =>
                bsPc'[p] = [at |-> "close_browser", from |-> "close",
                            ref |-> bsBrowser]]_vars
    /\ [][\A p \in Callers :
            (bsPc[p].at = "close_browser" /\ bsPc'[p] = Idle) =>
                bsBrowser' = 0 /\ bsContext' = 0]_vars
    /\ [][\A p \in Callers :
            (bsBrowser = 0 /\ bsPc[p] = Idle /\ bsPc'[p].from = "newPage") =>
                /\ bsPc'[p].at = "launch"
                /\ bsLaunched' = bsLaunched + 1]_vars

\* A newPage() raised on the half-initialised service, close() closed the
\* browser that never got a context, and a later newPage() returned a page
\* of a new browser's context.
C29_Witness ==
    /\ bsRet["u1"].kind = "err_context_not_initialized"
    /\ bsRet["u2"] = Ret("page", 2)
    /\ bsClosedB = {1}
    /\ 1 \notin bsCtxMade

----------------------------------------------------------------------------
(* Claims about handleButtonClick                                          *)

\* C30: the customId 'load_' + dataType + '_' + url is parsed back into the
\* same dataType and the same url, for every dataType the switch handles
\* and every url, and with a preview found the case of that dataType runs.
C30_CustomIdRoundTrip ==
    /\ hbPc # "click" =>
          /\ hbParsed.dataType = hbType
          /\ hbParsed.url = hbUrl
    /\ (hbPc = "done"
          /\ hbCase \notin {"could_not_load", "error_loading_data"}) =>
          hbCase = (CASE hbType = Summary -> "summary"
                      [] hbType = TeamNews -> "team_news"
                      [] hbType = Prediction -> "prediction"
                      [] hbType = Form -> "form")


====
